---- MODULE Spec2Model ----
(***************************************************************************)
(* Response-normalisation engine of the brand research page               *)
(* (src/app/page.tsx): tryParseString, resolveValue, mapChatGPTResult,    *)
(* findBrandsInObject and parseAgentResponse, as operators over a tagged  *)
(* representation of JavaScript values, and one specification per         *)
(* function that draws its input from a bounded set and applies it.       *)
(*                                                                         *)
(* VALUES.  Every JavaScript value is a record [k, n, ks, vs]:             *)
(*   k = "undef" | "null" | "bool" | "num" | "str" | "arr" | "obj",        *)
(*   n  the number (or 0/1 for a boolean),                                 *)
(*   ks the keys of an object, in insertion order,                         *)
(*   vs the elements of an array, the values of an object (vs[i] belongs   *)
(*      to ks[i]) or the chunks of a string.                               *)
(* k = "throw" stands for an exception leaving the function.               *)
(*                                                                         *)
(* STRINGS.  The text of a string is a sequence of chunks:                 *)
(*   "ws"    a run of whitespace (blanks, newlines),                       *)
(*   "txt"   a word of prose, ks = <<the word>>; a word holds no           *)
(*           whitespace, quote, backslash, brace, bracket or backtick,     *)
(*   "fence" three backticks,                                              *)
(*   "json"  the text JSON.stringify gives for the value vs[1].            *)
(* JSON.parse of a text succeeds exactly when the text is one "json"       *)
(* chunk (whitespace around it allowed) and then gives that chunk's value; *)
(* JSON.stringify of a value is the one-chunk text holding it.  A string   *)
(* encoded twice is therefore a json chunk holding a string whose text is  *)
(* a json chunk, and so on.                                                *)
(* The pattern and the brace search of tryParseString are read on the      *)
(* chunks.  This is exact for the texts of InputsRegular: those in which   *)
(* three backticks inside a JSON text are met only after a fence of the    *)
(* text itself, or in a text that parses directly.                         *)
(***************************************************************************)
EXTENDS Integers, Sequences, FiniteSets, TLC

VARIABLES
  pc,           \* how far the function under check has run
  val,          \* resolveValue: its argument
  resolved,     \* resolveValue(val)
  reresolved,   \* resolveValue(resolveValue(val))
  parseDepths,  \* the depths at which resolveValue(val) called tryParseString
  r,            \* mapChatGPTResult: its argument
  mapped,       \* mapChatGPTResult(r)
  result,       \* the agent response: the argument of parseAgentResponse and
                \* parseResponseMeta; on the page what callAIAgent returned to
                \* handleCollect, while its continuation is the step that ran last
  brands,       \* parseAgentResponse(result); on the page the state brands
  parsedMeta,   \* parseResponseMeta(result)
  enteredAt,    \* findBrandsInObject: the depth it is entered at
  fromFind,     \* findBrandsInObject(val, enteredAt)
  shown,        \* what the row of a brand renders for the field value val
  \* the state of the page component (useState)
  brandText,    \* the text of the textarea
  file,         \* the file selected, or null
  brandNames,   \* the brand names parsed from the text or the file
  loading,
  currentBrand, \* the progress shown while loading
  searchQuery,
  sortField,
  sortDirection,
  expandedRows, \* the row indices expanded
  view,         \* 'input' | 'results' ('upload' | 'results' in the upload flow)
  error,        \* null or the message of the error banner
  artifactFiles,
  activeAgent,
  meta,         \* {total, complete, partial}
  inputMode,    \* 'text' | 'csv'
  showSample,   \* the sample preview toggle (sampleData in the upload flow)
  \* what the page's asynchronous work is waiting for
  pending,      \* handleCollect: "none", or the call awaited: "upload", "agent"
  uploadResult, \* upload flow: what uploadFiles returned last
  reading,      \* the files FileReaders are reading
  current,      \* the counter of the progress interval
  op            \* the handler or callback that ran last

pageVars ==
  <<brandText, file, brandNames, loading, currentBrand, searchQuery, sortField,
    sortDirection, expandedRows, view, error, artifactFiles, activeAgent, meta,
    inputMode, showSample, pending, uploadResult, reading, current, op>>

vars ==
  <<pc, val, resolved, reresolved, parseDepths, r, mapped, result, brands,
    parsedMeta, enteredAt, fromFind, shown, pageVars>>

resolverVars == <<val, resolved, reresolved, parseDepths>>
mapperVars == <<r, mapped>>
extractVars == <<result, brands>>
metaVars == <<parsedMeta>>
probeVars == <<enteredAt, fromFind, shown>>

-----------------------------------------------------------------------------
(* Values *)

Mk(kind, num, keys, vals) == [k |-> kind, n |-> num, ks |-> keys, vs |-> vals]

Undefined == Mk("undef", 0, <<>>, <<>>)
Null == Mk("null", 0, <<>>, <<>>)
Thrown == Mk("throw", 0, <<>>, <<>>)
Bool(b) == Mk("bool", IF b THEN 1 ELSE 0, <<>>, <<>>)
Num(i) == Mk("num", i, <<>>, <<>>)
Str(chunks) == Mk("str", 0, <<>>, chunks)
Arr(items) == Mk("arr", 0, <<>>, items)
Obj(keys, vals) == Mk("obj", 0, keys, vals)

Ws == Mk("ws", 0, <<>>, <<>>)
Fence == Mk("fence", 0, <<>>, <<>>)
Txt(word) == Mk("txt", 0, <<word>>, <<>>)
Json(v) == Mk("json", 0, <<>>, <<v>>)

EmptyString == Str(<<>>)
Word(word) == Str(<<Txt(word)>>)

(* JSON.stringify(v), as a string value *)
Stringify(v) == Str(<<Json(v)>>)

RECURSIVE Encode(_, _)
(* v JSON-encoded n times: Encode(v, 1) is the JSON text of v *)
Encode(v, n) == IF n = 0 THEN v ELSE Stringify(Encode(v, n - 1))

IsObject(v) == v.k = "obj"
IsArray(v) == v.k = "arr"
IsString(v) == v.k = "str"
IsNullish(v) == v.k \in {"undef", "null"}

HasKey(v, key) == IsObject(v) /\ \E i \in 1..Len(v.ks) : v.ks[i] = key

(* v[key] and v?.[key]: undefined for a missing key and for every value *)
(* that is no object (the keys read by this code are no array or string *)
(* properties)                                                           *)
Get(v, key) ==
  IF HasKey(v, key)
  THEN v.vs[CHOOSE i \in 1..Len(v.ks) : v.ks[i] = key]
  ELSE Undefined

(* const x = e: x \in {e} binds the value of e, and Only takes the one  *)
(* value computed with it                                               *)
Only(S) == CHOOSE x \in S : TRUE

(* JavaScript truthiness *)
Truthy(v) ==
  CASE v.k \in {"undef", "null"} -> FALSE
    [] v.k = "bool" -> v.n = 1
    [] v.k = "num" -> v.n # 0
    [] v.k = "str" -> Len(v.vs) > 0
    [] OTHER -> TRUE

(* {total, complete, partial} *)
Meta(total, complete, partial) ==
  Obj(<<"total", "complete", "partial">>, <<total, complete, partial>>)

(* the state of the page after construction (the useState initial values), *)
(* nothing awaited                                                         *)
Constructed ==
  /\ brandText = <<>>
  /\ file = Null
  /\ brandNames = <<>>
  /\ loading = FALSE
  /\ currentBrand = 0
  /\ searchQuery = EmptyString
  /\ sortField = "brand_name"
  /\ sortDirection = "asc"
  /\ expandedRows = {}
  /\ view = "input"
  /\ error = Null
  /\ artifactFiles = Arr(<<>>)
  /\ activeAgent = FALSE
  /\ meta = Meta(Num(0), Num(0), Num(0))
  /\ inputMode = "text"
  /\ showSample = FALSE
  /\ pending = "none"
  /\ uploadResult = Undefined
  /\ reading = <<>>
  /\ current = 0
  /\ op = "constructed"

-----------------------------------------------------------------------------
(* Text *)

RECURSIVE TrimLeft(_)
TrimLeft(cs) ==
  IF cs # <<>> /\ Head(cs).k = "ws" THEN TrimLeft(Tail(cs)) ELSE cs

RECURSIVE TrimRight(_)
TrimRight(cs) ==
  IF cs # <<>> /\ cs[Len(cs)].k = "ws"
  THEN TrimRight(SubSeq(cs, 1, Len(cs) - 1))
  ELSE cs

(* String.prototype.trim *)
Trim(cs) == TrimRight(TrimLeft(cs))

RECURSIVE TextHas(_, _)
(* whether the text of chunk c holds a character of the class cls:      *)
(* "fence" three backticks, "brace" an opening brace or bracket.  The   *)
(* JSON text of a value holds what the strings inside the value hold,   *)
(* and an object or array text holds its own opening brace or bracket.  *)
TextHas(c, cls) ==
  CASE c.k = "fence" -> cls = "fence"
    [] c.k = "json" ->
         LET v == c.vs[1] IN
         \/ cls = "brace" /\ v.k \in {"obj", "arr"}
         \/ /\ v.k \in {"str", "arr", "obj"}
            /\ \E i \in 1..Len(v.vs) :
                 TextHas(IF v.k = "str" THEN v.vs[i] ELSE Json(v.vs[i]), cls)
    [] OTHER -> FALSE

(* index of the first chunk after position from whose text holds cls, 0 if none *)
FirstWith(cs, cls, from) ==
  LET hits == {i \in (from + 1)..Len(cs) : TextHas(cs[i], cls)}
  IN IF hits = {} THEN 0 ELSE CHOOSE i \in hits : \A j \in hits : i <= j

(* JSON.parse(text): [ok |-> whether it returned, v |-> what it returned] *)
JsonParse(cs) ==
  LET t == Trim(cs) IN
  IF Len(t) = 1 /\ t[1].k = "json"
  THEN [ok |-> TRUE, v |-> t[1].vs[1]]
  ELSE [ok |-> FALSE, v |-> Null]

(* the code block without the optional tag in the pattern: the tag json *)
(* stays in the group                                                   *)
CodeBlockKeepTag(t) ==
  LET open == FirstWith(t, "fence", 0)
      close == IF open = 0 THEN 0 ELSE FirstWith(t, "fence", open)
  IN IF open = 0 \/ close = 0 \/ t[open].k # "fence" THEN <<>>
     ELSE IF t[close].k = "fence" THEN SubSeq(t, open + 1, close - 1)
     ELSE Append(SubSeq(t, open + 1, close - 1), Mk("txt", 1, <<"cut">>, <<>>))

(* trimmed.match(/```(?:json)?\s*\n?([\s\S]*?)\n?```/)?.[1]: the text     *)
(* between the first fence and the next three backticks, the tag json     *)
(* right after the opening fence dropped.  <<>> when nothing matches or   *)
(* the group is empty.  When the next three backticks lie inside a JSON   *)
(* text, the group ends inside a string literal of that text: the chunk   *)
(* is kept, marked n = 1 (cut), and is no JSON text any more.             *)
CodeBlock(t) ==
  LET open == FirstWith(t, "fence", 0)
      close == IF open = 0 THEN 0 ELSE FirstWith(t, "fence", open)
  IN IF open = 0 \/ close = 0 \/ t[open].k # "fence" THEN <<>>
     ELSE LET from == IF open + 1 < close /\ t[open + 1] = Txt("json")
                      THEN open + 2 ELSE open + 1
              body == SubSeq(t, from, close - 1)
          IN IF t[close].k = "fence" THEN body
             ELSE Append(body, Mk("txt", 1, <<"cut">>, <<>>))

MaxResolveDepth == 5

(* the three strategies of tryParseString on the trimmed text, each      *)
(* [ok |-> JSON.parse returned, v |-> its value]                         *)

(* JSON.parse(trimmed) *)
DirectParse(trimmed) == JsonParse(trimmed)

(* JSON.parse(codeBlockMatch[1].trim()), when the group is not empty *)
FencedParse(trimmed) ==
  LET block == CodeBlock(trimmed) IN
  IF Trim(block) # <<>> THEN JsonParse(block) ELSE [ok |-> FALSE, v |-> Null]

(* JSON.parse(trimmed.slice(jsonStart)): the first opening brace or       *)
(* bracket either opens an object or array text, or lies inside a string  *)
(* literal, and the rest of a literal is no JSON text                     *)
SlicedParse(trimmed) ==
  LET jsonStart == FirstWith(trimmed, "brace", 0) IN
  IF jsonStart > 0 /\ trimmed[jsonStart].vs[1].k \in {"obj", "arr"}
  THEN JsonParse(SubSeq(trimmed, jsonStart, Len(trimmed)))
  ELSE [ok |-> FALSE, v |-> Null]

(* tryParseString: null when no strategy parses the string *)
tryParseString(s) ==
  IF ~IsString(s) \/ s.vs = <<>> THEN Null
  ELSE Only({ IF DirectParse(trimmed).ok THEN DirectParse(trimmed).v
              ELSE IF FencedParse(trimmed).ok THEN FencedParse(trimmed).v
              ELSE IF SlicedParse(trimmed).ok THEN SlicedParse(trimmed).v
              ELSE Null :
              trimmed \in {Trim(s.vs)} })

(* the resolver cut short: parses once and does not resolve the result *)
resolveRunOnce(v, depth) ==
  IF depth > 5 \/ ~IsString(v) THEN [out |-> v, depths |-> {}]
  ELSE Only({ [out |-> IF parsed # Null THEN parsed ELSE v, depths |-> {depth}] :
              parsed \in {tryParseString(v)} })

RECURSIVE resolveRunDeeper(_, _)
(* the resolver with its guard off by one: depth > 6 *)
resolveRunDeeper(v, depth) ==
  IF depth > 6 \/ ~IsString(v) THEN [out |-> v, depths |-> {}]
  ELSE Only({ IF parsed # Null
              THEN Only({ [out |-> rest.out, depths |-> {depth} \cup rest.depths] :
                          rest \in {resolveRunDeeper(parsed, depth + 1)} })
              ELSE [out |-> v, depths |-> {depth}] :
              parsed \in {tryParseString(v)} })

RECURSIVE resolveRunTrimmed(_, _)
(* the resolver handing back the trimmed text of an unparseable string *)
resolveRunTrimmed(v, depth) ==
  IF depth > 5 \/ ~IsString(v) THEN [out |-> v, depths |-> {}]
  ELSE Only({ IF parsed # Null
              THEN Only({ [out |-> rest.out, depths |-> {depth} \cup rest.depths] :
                          rest \in {resolveRunTrimmed(parsed, depth + 1)} })
              ELSE [out |-> Str(Trim(v.vs)), depths |-> {depth}] :
              parsed \in {tryParseString(v)} })

RECURSIVE resolveRun(_, _)
(* resolveValue with the depths at which it called tryParseString:       *)
(* [out |-> the value returned, depths |-> those depths]                 *)
resolveRun(v, depth) ==
  IF depth > MaxResolveDepth \/ ~IsString(v) THEN [out |-> v, depths |-> {}]
  ELSE Only({ IF parsed # Null
              THEN Only({ [out |-> rest.out, depths |-> {depth} \cup rest.depths] :
                          rest \in {resolveRun(parsed, depth + 1)} })
              ELSE [out |-> v, depths |-> {depth}] :
              parsed \in {tryParseString(v)} })

resolveValue(v, depth) == resolveRun(v, depth).out

-----------------------------------------------------------------------------
(* Schema mapper *)

(* String.prototype.toLowerCase on the words of the model *)
Lower(word) ==
  CASE word \in {"Verified", "VERIFIED"} -> "verified"
    [] word = "Partially" -> "partially"
    [] word \in {"Not", "NOT"} -> "not"
    [] word \in {"Found", "FOUND"} -> "found"
    [] word = "Complete" -> "complete"
    [] word = "Partial" -> "partial"
    [] word \in {"Brand", "BRAND"} -> "brand"
    [] word = "Name" -> "name"
    [] word = "Company" -> "company"
    [] word = "Nike" -> "nike"
    [] word = "Zara" -> "zara"
    [] word = "Apple" -> "apple"
    [] word = "Tesla" -> "tesla"
    [] word = "Adidas" -> "adidas"
    [] word = "Sportswear" -> "sportswear"
    [] word = "Global" -> "global"
    [] word = "Turkey" -> "turkey"
    [] OTHER -> word

RECURSIVE LowerAll(_)
(* toLowerCase of a text: of its words, and of the words and keys inside *)
(* its JSON texts                                                        *)
LowerAll(v) ==
  Mk(v.k, v.n, [i \in 1..Len(v.ks) |-> Lower(v.ks[i])],
               [i \in 1..Len(v.vs) |-> LowerAll(v.vs[i])])

toLowerCase(s) == LowerAll(s)

(* a ?? b *)
Coalesce(a, b) == IF IsNullish(a) THEN b ELSE a

RECURSIVE JoinText(_, _)
(* Array.prototype.join: the chunks of the elements' texts with sep      *)
(* between them; null and undefined elements give the empty text         *)
JoinText(items, sep) ==
  IF items = <<>> THEN <<>>
  ELSE LET x == Head(items)
           text == CASE IsString(x) -> x.vs
                     [] IsNullish(x) -> <<>>
                     [] IsArray(x) -> JoinText(x.vs, <<Txt(",")>>)
                     [] IsObject(x) -> <<Txt("[object Object]")>>
                     [] OTHER -> <<Json(x)>>
       IN IF Len(items) = 1 THEN text
          ELSE text \o sep \o JoinText(Tail(items), sep)

BrandKeys ==
  <<"brand_name", "website_url", "website_scope", "confidence",
    "verification_notes", "logo_url", "founded_year", "about_summary",
    "about_page_link", "product_category", "social_media", "contact_info",
    "status">>

SocialKeys ==
  <<"twitter", "linkedin", "instagram", "facebook", "youtube", "tiktok",
    "pinterest">>

ContactKeys == <<"email", "phone", "hq_address">>

(* (r?.confidence as string)?.toLowerCase() === 'verified' ? ... : ...:  *)
(* the call is skipped for null and undefined only; any other value that *)
(* is no string has no toLowerCase, and calling it raises a TypeError    *)
StatusOf(confidence) ==
  IF IsNullish(confidence) THEN Word("Partial")
  ELSE IF IsString(confidence)
  THEN IF toLowerCase(confidence) = Word("verified")
       THEN Word("Complete") ELSE Word("Partial")
  ELSE Thrown

(* the website with the two sources swapped: the Turkey site first *)
WebsiteTurkeyFirst(rec) ==
  Coalesce(Get(rec, "official_website_turkey"),
           Coalesce(Get(rec, "selected_official_website"), EmptyString))

(* (r?.selected_official_website as string) ??                          *)
(*   (r?.official_website_turkey as string) ?? ''                       *)
WebsiteOf(rec) ==
  Coalesce(Get(rec, "selected_official_website"),
           Coalesce(Get(rec, "official_website_turkey"), EmptyString))

(* mapChatGPTResult: Thrown when reading the status raises *)
mapChatGPTResult(rec) ==
  LET wd == Get(rec, "website_details")
      sm == Get(wd, "social_media")
      cats == Get(wd, "product_categories")
      status == StatusOf(Get(rec, "confidence"))
  IN IF status = Thrown THEN Thrown
     ELSE Obj(BrandKeys,
       << Coalesce(Get(rec, "brand_name"), EmptyString),
          WebsiteOf(rec),
          Coalesce(Get(rec, "website_scope"), EmptyString),
          Coalesce(Get(rec, "confidence"), EmptyString),
          Coalesce(Get(rec, "verification_notes"), EmptyString),
          Coalesce(Get(wd, "logo_url"), EmptyString),
          Coalesce(Get(wd, "founded_year"), EmptyString),
          EmptyString,
          Coalesce(Get(wd, "about_page_link"), EmptyString),
          IF IsArray(cats) THEN Str(JoinText(cats.vs, <<Txt(","), Ws>>))
          ELSE Coalesce(cats, EmptyString),
          Obj(SocialKeys,
              [i \in 1..Len(SocialKeys) |->
                 Coalesce(Get(sm, SocialKeys[i]), EmptyString)]),
          Obj(ContactKeys,
              << Coalesce(Get(wd, "contact_email"), EmptyString),
                 Coalesce(Get(wd, "contact_phone"), EmptyString),
                 EmptyString >>),
          status >>)

-----------------------------------------------------------------------------
(* Brand extractor *)

(* the limit of the resolver taken for the limit of the search *)
MaxFindDepthOfResolver == MaxResolveDepth

MaxFindDepth == 4

(* val.map(mapChatGPTResult): an exception in one element leaves the map *)
MapAll(items) ==
  IF \E i \in 1..Len(items) : mapChatGPTResult(items[i]) = Thrown
  THEN Thrown
  ELSE Arr([i \in 1..Len(items) |-> mapChatGPTResult(items[i])])

(* typeof x === 'object' && x !== null *)
IsObjectLike(x) == x.k \in {"obj", "arr"}

(* the loop body with the two schema tests swapped: a first element with *)
(* the alternate-schema markers is mapped even when it has brand_name    *)
FromKeyMarkersFirst(record, key) ==
  Only({ IF IsArray(v) /\ Len(v.vs) > 0 /\ IsObjectLike(v.vs[1])
         THEN IF HasKey(v.vs[1], "website_details")
                 \/ HasKey(v.vs[1], "selected_official_website")
              THEN MapAll(v.vs)
              ELSE IF HasKey(v.vs[1], "brand_name") THEN v
              ELSE Undefined
         ELSE Undefined :
         v \in {resolveValue(Get(record, key), 0)} })

(* the body of the loop over 'brands' and 'results': the value the loop  *)
(* returns for this key, undefined when it goes on                       *)
FromKey(record, key) ==
  Only({ IF IsArray(v) /\ Len(v.vs) > 0 /\ IsObjectLike(v.vs[1])
         THEN IF HasKey(v.vs[1], "brand_name") THEN v
              ELSE IF HasKey(v.vs[1], "website_details")
                      \/ HasKey(v.vs[1], "selected_official_website")
              THEN MapAll(v.vs)
              ELSE Undefined
         ELSE Undefined :
         v \in {resolveValue(Get(record, key), 0)} })

(* the places findBrandsInObject probes in an object, in its order *)
ProbeKeys == <<"brands", "results", "text", "result", "response", "data">>

RECURSIVE findBrandsInObject(_, _), Probe(_, _, _), ProbeFrom(_, _, _)

(* what the probe of place i finds: for brands and results the value the *)
(* loop returns (undefined: none), for the others the result of the      *)
(* search one level down (an exception passes through)                   *)
Probe(record, depth, i) ==
  CASE i <= 2 -> FromKey(record, ProbeKeys[i])
    [] i = 3 ->
         IF HasKey(record, "text") /\ IsString(Get(record, "text"))
         THEN Only({ IF Truthy(parsed) THEN findBrandsInObject(parsed, depth + 1)
                     ELSE Null :
                     parsed \in {tryParseString(Get(record, "text"))} })
         ELSE Null
    [] OTHER ->
         IF HasKey(record, ProbeKeys[i])
         THEN findBrandsInObject(resolveValue(Get(record, ProbeKeys[i]), 0), depth + 1)
         ELSE Null

(* the probes from place i on: the first that finds something returns it *)
ProbeFrom(record, depth, i) ==
  IF i > Len(ProbeKeys) THEN Null
  ELSE Only({ IF (i <= 2 /\ found # Undefined) \/ (i > 2 /\ Truthy(found))
              THEN found
              ELSE ProbeFrom(record, depth, i + 1) :
              found \in {Probe(record, depth, i)} })

(* the search that looks into records only and takes no list for itself *)
findBrandsInRecords(obj, depth) ==
  IF depth > MaxFindDepth \/ ~Truthy(obj) \/ ~IsObjectLike(obj) \/ IsArray(obj)
  THEN Null
  ELSE ProbeFrom(obj, depth, 1)

(* the search taking every list of objects for a list of brands *)
findBrandsAnyObjects(obj, depth) ==
  IF depth > MaxFindDepth \/ ~Truthy(obj) \/ ~IsObjectLike(obj) THEN Null
  ELSE IF IsArray(obj)
  THEN IF Len(obj.vs) > 0 /\ IsObjectLike(obj.vs[1])
       THEN obj ELSE Null
  ELSE ProbeFrom(obj, depth, 1)

(* findBrandsInObject: null, a list of brands, or Thrown when            *)
(* mapChatGPTResult raised                                               *)
findBrandsInObject(obj, depth) ==
  IF depth > MaxFindDepth \/ ~Truthy(obj) \/ ~IsObjectLike(obj) THEN Null
  ELSE IF IsArray(obj)
  THEN IF Len(obj.vs) > 0 /\ IsObjectLike(obj.vs[1])
          /\ HasKey(obj.vs[1], "brand_name")
       THEN obj ELSE Null
  ELSE ProbeFrom(obj, depth, 1)

-----------------------------------------------------------------------------
(* Response orchestrator *)

(* x && x.length > 0, for x null or a list *)
NonEmptyList(x) == IsArray(x) /\ Len(x.vs) > 0

(* what strategy i of parseAgentResponse computes; resultData is the    *)
(* resolved response.result                                             *)
Attempt(res, resultData, i) ==
  CASE i = 1 -> findBrandsInObject(resultData, 0)
    [] i = 2 -> findBrandsInObject(Get(res, "response"), 0)
    [] i = 3 -> findBrandsInObject(res, 0)
    [] i = 4 -> IF Truthy(Get(res, "raw_response"))
                THEN findBrandsInObject(resolveValue(Get(res, "raw_response"), 0), 0)
                ELSE Null
    [] OTHER -> IF IsArray(resultData) /\ Len(resultData.vs) > 0
                   /\ IsObjectLike(resultData.vs[1])
                   /\ HasKey(resultData.vs[1], "brand_name")
                THEN resultData ELSE Null

RECURSIVE AttemptFrom(_, _, _)
(* the strategies from i on: the first non-empty list is returned; an   *)
(* exception is caught and gives the empty list                         *)
AttemptFrom(res, resultData, i) ==
  IF i > 5 THEN Arr(<<>>)
  ELSE Only({ IF found = Thrown THEN Arr(<<>>)
              ELSE IF NonEmptyList(found) THEN found
              ELSE AttemptFrom(res, resultData, i + 1) :
              found \in {Attempt(res, resultData, i)} })

(* parseAgentResponse *)
parseAgentResponse(res) ==
  Only({ AttemptFrom(res, resultData, 1) :
         resultData \in {resolveValue(Get(Get(res, "response"), "result"), 0)} })

-----------------------------------------------------------------------------
(* Response metadata *)

IsNumber(v) == v.k = "num"

(* { total: p.total_brands, complete: (p.complete_count as number) ?? 0,  *)
(*   partial: (p.partial_count as number) ?? 0 }: ?? replaces null and     *)
(* undefined only                                                          *)
CountsOf(p) ==
  Meta(Get(p, "total_brands"),
       Coalesce(Get(p, "complete_count"), Num(0)),
       Coalesce(Get(p, "partial_count"), Num(0)))

(* x && typeof x === 'object' && !Array.isArray(x)                         *)
(*   && typeof x.total_brands === 'number'                                 *)
HasTotal(x) == IsObject(x) /\ IsNumber(Get(x, "total_brands"))

(* the body of the loop with the first two places swapped: the candidate  *)
(* itself before its parsed text field                                     *)
MetaInSelfFirst(obj) ==
  IF HasTotal(obj) THEN CountsOf(obj)
  ELSE Only({ IF HasTotal(parsed) THEN CountsOf(parsed)
              ELSE Only({ IF HasTotal(inner) THEN CountsOf(inner) ELSE Null :
                          inner \in {IF HasKey(obj, "result")
                                     THEN resolveValue(Get(obj, "result"), 0)
                                     ELSE Null} }) :
              parsed \in {IF HasKey(obj, "text") /\ IsString(Get(obj, "text"))
                          THEN tryParseString(Get(obj, "text")) ELSE Null} })

(* the body of the loop of parseResponseMeta for a candidate that is an   *)
(* object: the counts it returns, null when it goes on to the next        *)
(* candidate.  The places, in order: the parsed text field, the candidate *)
(* itself, its resolved result field.                                     *)
MetaIn(obj) ==
  Only({ IF HasTotal(parsed) THEN CountsOf(parsed)
         ELSE IF HasTotal(obj) THEN CountsOf(obj)
         ELSE Only({ IF HasTotal(inner) THEN CountsOf(inner) ELSE Null :
                     inner \in {IF HasKey(obj, "result")
                                THEN resolveValue(Get(obj, "result"), 0)
                                ELSE Null} }) :
         parsed \in {IF HasKey(obj, "text") /\ IsString(Get(obj, "text"))
                     THEN tryParseString(Get(obj, "text")) ELSE Null} })

(* the candidates of parseResponseMeta, in order: the resolved            *)
(* response.result, response, the whole response, and the resolved        *)
(* raw_response when raw_response is truthy                               *)
MetaCandidates(res) ==
  << resolveValue(Get(Get(res, "response"), "result"), 0),
     Get(res, "response"),
     res >>
  \o IF Truthy(Get(res, "raw_response"))
     THEN <<resolveValue(Get(res, "raw_response"), 0)>>
     ELSE <<>>

RECURSIVE MetaFrom(_, _)
(* the loop over the candidates from the i-th on; a candidate that is no  *)
(* object (null, a primitive, a list) is skipped                          *)
MetaFrom(candidates, i) ==
  IF i > Len(candidates) THEN Meta(Num(0), Num(0), Num(0))
  ELSE Only({ IF found # Null THEN found ELSE MetaFrom(candidates, i + 1) :
              found \in {IF IsObject(candidates[i]) THEN MetaIn(candidates[i])
                         ELSE Null} })

(* parseResponseMeta: nothing in its try block raises *)
parseResponseMeta(res) ==
  Only({ MetaFrom(candidates, 1) : candidates \in {MetaCandidates(res)} })

-----------------------------------------------------------------------------
(* Brand names typed or uploaded.  The text of the textarea, the text of *)
(* a file and a brand name are sequences of tokens: " " (blanks), "\n",  *)
(* ",", the quotes "'" and "dq" (the double quote), and words (runs of    *)
(* other characters).  No text holds two words in a row.                  *)

IsSpace(token) == token \in {" ", "\n"}
IsQuote(token) == token \in {"'", "dq"}

RECURSIVE TrimSpaces(_)
(* String.prototype.trim, on tokens *)
TrimSpaces(tokens) ==
  IF tokens # <<>> /\ IsSpace(Head(tokens)) THEN TrimSpaces(Tail(tokens))
  ELSE IF tokens # <<>> /\ IsSpace(tokens[Len(tokens)])
  THEN TrimSpaces(SubSeq(tokens, 1, Len(tokens) - 1))
  ELSE tokens

RECURSIVE SplitLines(_)
(* text.split(/[\n,]/) *)
SplitLines(tokens) ==
  LET cuts == {i \in 1..Len(tokens) : tokens[i] \in {"\n", ","}} IN
  IF cuts = {} THEN <<tokens>>
  ELSE LET cut == CHOOSE i \in cuts : \A j \in cuts : i <= j
       IN <<SubSeq(tokens, 1, cut - 1)>>
            \o SplitLines(SubSeq(tokens, cut + 1, Len(tokens)))

(* seq.filter(l => l.length > 0) *)
NonEmptyOnes(lines) == SelectSeq(lines, LAMBDA l : l # <<>>)

(* line.toLowerCase().replace(/['"]/g, '') *)
HeaderForm(line) ==
  LET bare == SelectSeq(line, LAMBDA token : ~IsQuote(token))
  IN [i \in 1..Len(bare) |-> Lower(bare[i])]

(* the header words parseBrandText drops *)
HeaderLines ==
  { <<"brand">>, <<"name">>, <<"brand_name">>, <<"brand", " ", "name">>,
    <<"company">>, <<"company", " ", "name">> }

(* l.replace(/^["']|["']$/g, ''): a quote at the start and a quote at the *)
(* end are dropped; a line that is one quote becomes empty                *)
StripQuotes(line) ==
  LET rest == IF line # <<>> /\ IsQuote(Head(line)) THEN Tail(line) ELSE line
  IN IF rest # <<>> /\ IsQuote(rest[Len(rest)])
     THEN SubSeq(rest, 1, Len(rest) - 1)
     ELSE rest

(* parseBrandText *)
parseBrandText(text) ==
  LET split == SplitLines(text)
      lines == NonEmptyOnes([i \in 1..Len(split) |-> TrimSpaces(split[i])])
      filtered == SelectSeq(lines, LAMBDA line : HeaderForm(line) \notin HeaderLines)
  IN NonEmptyOnes([i \in 1..Len(filtered) |-> TrimSpaces(StripQuotes(filtered[i]))])

RECURSIVE JoinLines(_)
(* names.join('\n') *)
JoinLines(names) ==
  IF names = <<>> THEN <<>>
  ELSE IF Len(names) = 1 THEN names[1]
  ELSE names[1] \o <<"\n">> \o JoinLines(Tail(names))

(* the effect on [brandText, inputMode]: it runs after a render in which  *)
(* one of the two changed; names is what the handler set brandNames to    *)
TextEffect(oldText, oldMode, text, mode, names) ==
  IF text = oldText /\ mode = oldMode THEN names
  ELSE IF mode = "text" /\ TrimSpaces(text) # <<>> THEN parseBrandText(text)
  ELSE IF mode = "text" THEN <<>>
  ELSE names

(* the extension test without regard to case *)
EndsWithCsvAnyCase(name) == name # <<>> /\ name[Len(name)] \in {".csv", ".CSV"}

(* selectedFile.name.endsWith('.csv'): a file is [name, text], the name a *)
(* sequence of tokens whose last is the extension                         *)
EndsWithCsv(name) == name # <<>> /\ name[Len(name)] = ".csv"

-----------------------------------------------------------------------------
(* Messages and counts of handleCollect *)

(* a fixed piece of a message *)
Phrase(text) == Mk("lit", 0, <<text>>, <<>>)
Message(text) == Str(<<Phrase(text)>>)

(* typeof v *)
TypeOf(v) ==
  CASE v.k = "undef" -> "undefined"
    [] v.k = "bool" -> "boolean"
    [] v.k = "num" -> "number"
    [] v.k = "str" -> "string"
    [] OTHER -> "object"

(* Object.keys(v), as strings: the keys of an object, the indices of a list *)
KeysOf(v) ==
  IF IsObject(v) THEN [i \in 1..Len(v.ks) |-> Word(v.ks[i])]
  ELSE [i \in 1..Len(v.vs) |-> Str(<<Json(Num(i - 1))>>)]

(* the message of the extraction failure (lines 1085-1095) *)
ParseFailure(res) ==
  LET data == Get(Get(res, "response"), "result")
      resultType == TypeOf(data)
      resultKeys == IF Truthy(data) /\ IsObjectLike(data)
                    THEN JoinText(KeysOf(data), <<Txt(","), Ws>>)
                    ELSE <<Txt(resultType)>>
  IN Str(<<Phrase("Could not parse brand data from the agent response. Response type: "),
           Txt(resultType), Phrase(", keys: [")>>
         \o resultKeys
         \o <<Phrase("]. Check browser console for details. Please try again.")>>)

(* the numbers the words of the model are the text of *)
WordNumber(word) ==
  CASE word = "1949" -> [nan |-> FALSE, n |-> 1949]
    [] word = "2" -> [nan |-> FALSE, n |-> 2]
    [] word = "3" -> [nan |-> FALSE, n |-> 3]
    [] OTHER -> [nan |-> TRUE, n |-> 0]

(* Number(text): [nan |-> it is NaN, n |-> the number otherwise] *)
TextNumber(chunks) ==
  LET t == Trim(chunks) IN
  IF t = <<>> THEN [nan |-> FALSE, n |-> 0]
  ELSE IF Len(t) = 1 /\ t[1].k = "json" /\ IsNumber(t[1].vs[1])
  THEN [nan |-> FALSE, n |-> t[1].vs[1].n]
  ELSE IF Len(t) = 1 /\ t[1].k = "txt" THEN WordNumber(t[1].ks[1])
  ELSE [nan |-> TRUE, n |-> 0]

RECURSIVE ToNumber(_, _)
(* the number a relational operator converts v to; inList: v is the only  *)
(* element of a list being converted, which goes through String(v)        *)
ToNumber(v, inList) ==
  CASE v.k = "num" -> [nan |-> FALSE, n |-> v.n]
    [] v.k = "str" -> TextNumber(v.vs)
    [] v.k = "null" -> [nan |-> FALSE, n |-> 0]
    [] v.k = "undef" -> [nan |-> ~inList, n |-> 0]
    [] v.k = "bool" -> [nan |-> inList, n |-> v.n]
    [] v.k = "arr" ->
         IF Len(v.vs) = 0 THEN [nan |-> FALSE, n |-> 0]
         ELSE IF Len(v.vs) = 1 THEN ToNumber(v.vs[1], TRUE)
         ELSE [nan |-> TRUE, n |-> 0]
    [] OTHER -> [nan |-> TRUE, n |-> 0]

(* v > 0 *)
Positive(v) == ~ToNumber(v, FALSE).nan /\ ToNumber(v, FALSE).n > 0

(* b?.status?.toLowerCase(): raises for a status that is neither a string *)
(* nor null nor undefined                                                 *)
StatusRaises(b) ==
  ~IsNullish(Get(b, "status")) /\ ~IsString(Get(b, "status"))

(* b?.status?.toLowerCase() === 'complete' *)
StatusComplete(b) ==
  IsString(Get(b, "status")) /\ toLowerCase(Get(b, "status")) = Word("complete")

(* the argument of setMeta with the total taken as it was parsed *)
CollectedMetaAsParsed(parsedBrands, counts) ==
  LET list == parsedBrands.vs
      complete == {i \in 1..Len(list) : StatusComplete(list[i])}
      filters == ~Positive(Get(counts, "complete")) \/ ~Positive(Get(counts, "partial"))
  IN IF filters /\ \E i \in 1..Len(list) : StatusRaises(list[i]) THEN Thrown
     ELSE Meta(Get(counts, "total"),
               IF Positive(Get(counts, "complete")) THEN Get(counts, "complete")
               ELSE Num(Cardinality(complete)),
               IF Positive(Get(counts, "partial")) THEN Get(counts, "partial")
               ELSE Num(Len(list) - Cardinality(complete)))

(* the argument of setMeta (lines 1102-1112), Thrown when a filter raises *)
CollectedMeta(parsedBrands, counts) ==
  LET list == parsedBrands.vs
      complete == {i \in 1..Len(list) : StatusComplete(list[i])}
      filters == ~Positive(Get(counts, "complete")) \/ ~Positive(Get(counts, "partial"))
  IN IF filters /\ \E i \in 1..Len(list) : StatusRaises(list[i]) THEN Thrown
     ELSE Meta(IF Positive(Get(counts, "total")) THEN Get(counts, "total")
               ELSE Num(Len(list)),
               IF Positive(Get(counts, "complete")) THEN Get(counts, "complete")
               ELSE Num(Cardinality(complete)),
               IF Positive(Get(counts, "partial")) THEN Get(counts, "partial")
               ELSE Num(Len(list) - Cardinality(complete)))

(* the message of the TypeError a raising filter leaves the try block with *)
StatusTypeError == Message("b?.status?.toLowerCase is not a function")

(* result?.error ?? result?.response?.message ?? '...' (lines 1124-1128) *)
FailureMessage(res) ==
  Coalesce(Get(res, "error"),
    Coalesce(Get(Get(res, "response"), "message"),
      Message("An error occurred while processing your request. Please try again.")))

-----------------------------------------------------------------------------
(* The results table *)

(* hay.includes(needle), on chunks: exact for needles made of whole words *)
(* that are part of no other word of the texts                            *)
Includes(hay, needle) ==
  \E i \in 0..(Len(hay) - Len(needle)) :
    SubSeq(hay, i + 1, i + Len(needle)) = needle

(* the fields the search looks at, in its order *)
SearchFields ==
  <<"brand_name", "product_category", "website_url", "website_scope", "confidence">>

RECURSIVE MatchFrom(_, _, _)
(* the || chain of the filter from field j on: "yes", "no", or "raise"    *)
(* when (b?.[field] ?? '') is no string and has no toLowerCase            *)
MatchFrom(b, q, j) ==
  IF j > Len(SearchFields) THEN "no"
  ELSE Only({ IF ~IsString(field) THEN "raise"
              ELSE IF Includes(toLowerCase(field).vs, q.vs) THEN "yes"
              ELSE MatchFrom(b, q, j + 1) :
              field \in {Coalesce(Get(b, SearchFields[j]), EmptyString)} })

(* the filter of getFilteredBrands (lines 1176-1187): the indices of      *)
(* source it keeps                                                        *)
Kept(source, query) ==
  IF Trim(query.vs) = <<>> THEN 1..Len(source.vs)
  ELSE {i \in 1..Len(source.vs) : MatchFrom(source.vs[i], toLowerCase(query), 1) = "yes"}

FilterRaises(source, query) ==
  /\ Trim(query.vs) # <<>>
  /\ \E i \in 1..Len(source.vs) : MatchFrom(source.vs[i], toLowerCase(query), 1) = "raise"

(* SAMPLE_BRANDS: of each record, the fields the page reads from it *)
SAMPLE_BRANDS ==
  LET SampleBrand(name, site, status) ==
        Obj(<<"brand_name", "website_url", "website_scope", "confidence",
              "product_category", "status">>,
            <<name, site, Word("Turkey"), Word("Verified"), Word("Sportswear"),
              status>>)
  IN Arr(<< SampleBrand(Word("Adidas"), Word("https://www.adidas.com.tr"),
                        Word("Complete")),
            SampleBrand(Str(<<Txt("Abdullah"), Ws, Txt("Kigilil")>>),
                        Word("https://www.kigilil.com.tr"), Word("Partial")),
            SampleBrand(Word("adL"), Word("https://www.adl.com.tr"),
                        Word("Partial")) >>)

(* the list getFilteredBrands filters *)
TableSource == IF showSample /\ view = "input" THEN SAMPLE_BRANDS ELSE brands

(* getFilteredBrands runs in every render of Page, outside the error      *)
(* boundary Page renders: when it raises, the page is gone                *)
Crashed == FilterRaises(TableSource, searchQuery)

(* the input panel is rendered *)
PanelShown == ~Crashed /\ view = "input" /\ ~loading

(* a table is rendered: the results, or the sample preview *)
TableShown ==
  /\ ~Crashed
  /\ ~loading
  /\ view = "results" \/ (view = "input" /\ showSample)

-----------------------------------------------------------------------------
(* How a row shows a field of a brand (isNotFound, SocialLink,            *)
(* ContactItem, the badges, the cells of BrandRow)                        *)

(* isNotFound without its two trims *)
isNotFoundUntrimmed(v) ==
  IF ~Truthy(v) THEN Bool(TRUE)
  ELSE IF ~IsString(v) THEN Thrown
  ELSE Bool(toLowerCase(v) = Str(<<Txt("not"), Ws, Txt("found")>>)
            \/ v.vs = <<>>)

(* isNotFound: true, false, or Thrown when val is truthy and has no trim *)
isNotFound(v) ==
  IF ~Truthy(v) THEN Bool(TRUE)
  ELSE IF ~IsString(v) THEN Thrown
  ELSE Bool(toLowerCase(Str(Trim(v.vs))) = Str(<<Txt("not"), Ws, Txt("found")>>)
            \/ Trim(v.vs) = <<>>)

(* what is rendered: the element, the look its classes give it, its text; *)
(* Nothing when no element is rendered, Raises when rendering throws      *)
Look(tag, style, text) == [tag |-> tag, style |-> style, text |-> text]
Nothing == Look("none", "", Undefined)
Raises == Look("raise", "", Thrown)

(* a cell that tests isNotFound(brand?.field): absent when it is true,    *)
(* else present                                                           *)
ByNotFound(v, absent, present) ==
  IF isNotFound(v) = Thrown THEN Raises
  ELSE IF isNotFound(v) = Bool(TRUE) THEN absent
  ELSE present

(* the places of a row that show a field of the brand *)
Places ==
  { "SocialLink", "ContactItem", "logo_url", "product_category", "website_url",
    "founded_year", "verification_notes", "about_summary", "about_page_link",
    "website_scope", "confidence", "brand_name" }

(* what the place renders for the field value v (undefined: no such field) *)
Shown(place, v) ==
  CASE place = "SocialLink" ->
         ByNotFound(Coalesce(v, EmptyString),
                    Look("span", "muted", Undefined),
                    Look("a", "link", Coalesce(v, EmptyString)))
    [] place = "ContactItem" ->
         ByNotFound(Coalesce(v, EmptyString),
                    Look("p", "muted italic", Message("Not Found")),
                    Look("p", "text", Coalesce(v, EmptyString)))
    [] place = "logo_url" ->
         ByNotFound(v, Look("div", "initial", Undefined), Look("img", "logo", v))
    [] place = "product_category" ->
         ByNotFound(v, Look("span", "muted italic", Message("N/A")),
                    Look("span", "text", v))
    [] place = "website_url" ->
         ByNotFound(v, Look("span", "muted italic", Message("Not Found")),
                    Look("a", "link", v))
    [] place = "founded_year" ->
         ByNotFound(v, Look("span", "muted italic", Message("N/A")),
                    Look("td", "text", v))
    [] place = "verification_notes" ->
         ByNotFound(v, Nothing, Look("p", "text", v))
    [] place = "about_summary" ->
         ByNotFound(v, Look("p", "muted italic", Message("No description available.")),
                    Look("p", "text", v))
    [] place = "about_page_link" ->
         ByNotFound(v, Nothing, Look("a", "link", v))
    [] place = "website_scope" ->
         (* brand?.website_scope && <ScopeBadge scope={brand.website_scope} /> *)
         IF ~Truthy(v) THEN Nothing
         ELSE IF ~IsString(v) THEN Raises
         ELSE Look("span",
                   IF toLowerCase(v) = Word("turkey") THEN "red"
                   ELSE IF toLowerCase(v) = Word("global") THEN "blue"
                   ELSE "gray",
                   v)
    [] place = "confidence" ->
         (* <ConfidenceBadge confidence={brand?.confidence ?? ''} /> *)
         LET confidence == Coalesce(v, EmptyString)
             level == IF IsString(confidence) THEN toLowerCase(confidence)
                      ELSE Thrown
         IN IF level = Thrown THEN Raises
            ELSE Look("span",
                      IF level = Word("verified") THEN "emerald"
                      ELSE IF level = Str(<<Txt("partially"), Ws, Txt("verified")>>)
                      THEN "amber"
                      ELSE IF level = Str(<<Txt("not"), Ws, Txt("found")>>)
                      THEN "red"
                      ELSE "gray",
                      IF Truthy(confidence) THEN confidence
                      ELSE Message("Unknown"))
    [] OTHER ->
         (* {brand?.brand_name ?? 'Unknown'} *)
         Look("span", "text", Coalesce(v, Message("Unknown")))

-----------------------------------------------------------------------------
(* The page (src/app/page.tsx): one action per handler, effect, callback  *)
(* and continuation of handleCollect                                      *)

functionVars == <<pc, resolverVars, mapperVars, metaVars, probeVars>>

(* the progress effect on [loading, brandNames.length]: the interval and  *)
(* its counter start again when one of the two changes                    *)
ProgressEffect ==
  current' = IF loading' /\ loading /\ Len(brandNames') = Len(brandNames)
             THEN current ELSE 0

setInputMode(mode) ==
  /\ PanelShown
  /\ inputMode' = mode
  /\ brandNames' = TextEffect(brandText, inputMode, brandText, mode, brandNames)
  /\ op' = "setInputMode"
  /\ result' = Undefined
  /\ UNCHANGED <<brandText, file, loading, currentBrand, searchQuery, sortField,
                 sortDirection, expandedRows, view, error, artifactFiles,
                 activeAgent, meta, showSample, pending, uploadResult, reading,
                 brands, functionVars>>
  /\ ProgressEffect

setBrandText(text) ==
  /\ PanelShown
  /\ inputMode = "text"
  /\ brandText' = text
  /\ brandNames' = TextEffect(brandText, inputMode, text, inputMode, brandNames)
  /\ op' = "setBrandText"
  /\ result' = Undefined
  /\ UNCHANGED <<file, loading, currentBrand, searchQuery, sortField,
                 sortDirection, expandedRows, view, error, artifactFiles,
                 activeAgent, meta, inputMode, showSample, pending,
                 uploadResult, reading, brands, functionVars>>
  /\ ProgressEffect

MaxReads == 1

(* handleFileSelect, from handleDrop or handleInputChange *)
handleFileSelect(selectedFile) ==
  /\ PanelShown
  /\ inputMode = "csv"
  /\ IF ~EndsWithCsv(selectedFile.name)
     THEN /\ error' = Message("Please upload a .csv file")
          /\ UNCHANGED <<file, reading>>
     ELSE /\ Len(reading) < MaxReads
          /\ error' = Null
          /\ file' = selectedFile
          /\ reading' = Append(reading, selectedFile)
  /\ op' = "handleFileSelect"
  /\ result' = Undefined
  /\ UNCHANGED <<brandText, brandNames, loading, currentBrand, searchQuery,
                 sortField, sortDirection, expandedRows, view, artifactFiles,
                 activeAgent, meta, inputMode, showSample, pending,
                 uploadResult, current, brands, functionVars>>

(* reader.onload of the i-th read under way (lines 986-993) *)
onload(i) ==
  /\ ~Crashed
  /\ i \in 1..Len(reading)
  /\ reading' = SubSeq(reading, 1, i - 1) \o SubSeq(reading, i + 1, Len(reading))
  /\ IF reading[i].text # <<>>
     THEN /\ brandText' = JoinLines(parseBrandText(reading[i].text))
          /\ brandNames' = TextEffect(brandText, inputMode, brandText', inputMode,
                                      parseBrandText(reading[i].text))
     ELSE UNCHANGED <<brandText, brandNames>>
  /\ op' = "onload"
  /\ result' = Undefined
  /\ UNCHANGED <<file, loading, currentBrand, searchQuery, sortField,
                 sortDirection, expandedRows, view, error, artifactFiles,
                 activeAgent, meta, inputMode, showSample, pending,
                 uploadResult, brands, functionVars>>
  /\ ProgressEffect

clearInput ==
  /\ PanelShown
  /\ Len(brandNames) > 0
  /\ inputMode = "csv" => file # Null
  /\ file' = Null
  /\ brandNames' = <<>>
  /\ brandText' = <<>>
  /\ error' = Null
  /\ op' = "clearInput"
  /\ result' = Undefined
  /\ UNCHANGED <<loading, currentBrand, searchQuery, sortField, sortDirection,
                 expandedRows, view, artifactFiles, activeAgent, meta,
                 inputMode, showSample, pending, uploadResult, reading,
                 brands, functionVars>>
  /\ ProgressEffect

(* handleCollect up to its await; the handler is run with an empty list   *)
(* too, which the disabled button alone keeps from happening              *)
handleCollect ==
  /\ PanelShown
  /\ inputMode = "csv" => (file # Null /\ Len(brandNames) > 0)
  /\ op' = "handleCollect"
  /\ result' = Undefined
  /\ IF Len(brandNames) = 0
     THEN UNCHANGED <<loading, error, currentBrand, activeAgent, pending, current>>
     ELSE /\ loading' = TRUE
          /\ error' = Null
          /\ currentBrand' = 0
          /\ activeAgent' = TRUE
          /\ pending' = "agent"
          /\ current' = 0
  /\ UNCHANGED <<brandText, file, brandNames, searchQuery, sortField,
                 sortDirection, expandedRows, view, artifactFiles, meta,
                 inputMode, showSample, uploadResult, reading, brands,
                 functionVars>>

(* the continuation without its test for an empty list: whatever was     *)
(* parsed is shown                                                        *)
CollectedShowsEmpty(res) ==
  LET stay == [error |-> error, brands |-> brands, meta |-> meta,
               artifactFiles |-> artifactFiles, view |-> view]
  IN IF IsNullish(res)
     THEN [stay EXCEPT !.error = Message("Cannot read properties of null (reading 'success')")]
     ELSE IF ~Truthy(Get(res, "success"))
     THEN [stay EXCEPT !.error = FailureMessage(res)]
     ELSE Only({ Only({ IF counts = Thrown
                        THEN [stay EXCEPT !.brands = parsedBrands,
                                          !.error = StatusTypeError]
                        ELSE [stay EXCEPT
                                !.brands = parsedBrands,
                                !.meta = counts,
                                !.artifactFiles =
                                   IF IsArray(Get(Get(res, "module_outputs"), "artifact_files"))
                                   THEN Get(Get(res, "module_outputs"), "artifact_files")
                                   ELSE artifactFiles,
                                !.view = "results"] :
                        counts \in {CollectedMeta(parsedBrands, parseResponseMeta(res))} }) :
                 parsedBrands \in {parseAgentResponse(res)} })

(* what handleCollect sets once callAIAgent has returned res (lines       *)
(* 1067-1135): [error, brands, meta, artifactFiles, view]; loading and    *)
(* activeAgent are false on every path                                    *)
Collected(res) ==
  LET stay == [error |-> error, brands |-> brands, meta |-> meta,
               artifactFiles |-> artifactFiles, view |-> view]
  IN IF IsNullish(res)
     THEN [stay EXCEPT !.error = Message("Cannot read properties of null (reading 'success')")]
     ELSE IF ~Truthy(Get(res, "success"))
     THEN [stay EXCEPT !.error = FailureMessage(res)]
     ELSE Only({ IF Len(parsedBrands.vs) = 0
                 THEN [stay EXCEPT !.error = ParseFailure(res)]
                 ELSE Only({ IF counts = Thrown
                             THEN [stay EXCEPT !.brands = parsedBrands,
                                               !.error = StatusTypeError]
                             ELSE [stay EXCEPT
                                     !.brands = parsedBrands,
                                     !.meta = counts,
                                     !.artifactFiles =
                                        IF IsArray(Get(Get(res, "module_outputs"), "artifact_files"))
                                        THEN Get(Get(res, "module_outputs"), "artifact_files")
                                        ELSE artifactFiles,
                                     !.view = "results"] :
                             counts \in {CollectedMeta(parsedBrands, parseResponseMeta(res))} }) :
                 parsedBrands \in {parseAgentResponse(res)} })

(* callAIAgent returns res and handleCollect runs to its end *)
agentReturns(res) ==
  /\ ~Crashed
  /\ pending = "agent"
  /\ pending' = "none"
  /\ result' = res
  /\ \E next \in {Collected(res)} :
       /\ error' = next.error
       /\ brands' = next.brands
       /\ meta' = next.meta
       /\ artifactFiles' = next.artifactFiles
       /\ view' = next.view
  /\ loading' = FALSE
  /\ activeAgent' = FALSE
  /\ current' = 0
  /\ op' = "agentReturns"
  /\ UNCHANGED <<brandText, file, brandNames, currentBrand, searchQuery,
                 sortField, sortDirection, expandedRows, inputMode, showSample,
                 uploadResult, reading, functionVars>>

(* the catch block without the finally block after it *)
agentRaisesNoFinally(err) ==
  /\ ~Crashed
  /\ pending = "agent"
  /\ pending' = "none"
  /\ error' = IF err.isError THEN err.message
              ELSE Message("An unexpected error occurred.")
  /\ current' = 0
  /\ op' = "agentRaises"
  /\ result' = Undefined
  /\ UNCHANGED <<brandText, file, brandNames, currentBrand, searchQuery,
                 sortField, sortDirection, expandedRows, view, artifactFiles,
                 meta, inputMode, showSample, uploadResult, reading,
                 brands, functionVars, loading, activeAgent>>

(* callAIAgent raises err = [isError, message] and the catch block runs *)
agentRaises(err) ==
  /\ ~Crashed
  /\ pending = "agent"
  /\ pending' = "none"
  /\ error' = IF err.isError THEN err.message
              ELSE Message("An unexpected error occurred.")
  /\ loading' = FALSE
  /\ activeAgent' = FALSE
  /\ current' = 0
  /\ op' = "agentRaises"
  /\ result' = Undefined
  /\ UNCHANGED <<brandText, file, brandNames, currentBrand, searchQuery,
                 sortField, sortDirection, expandedRows, view, artifactFiles,
                 meta, inputMode, showSample, uploadResult, reading,
                 brands, functionVars>>

(* handleNewSearch without its setBrands([]) *)
handleNewSearchKeepsBrands ==
  /\ ~Crashed
  /\ view = "results"
  /\ view' = "input"
  /\ file' = Null
  /\ brandNames' = <<>>
  /\ brandText' = <<>>
  /\ artifactFiles' = Arr(<<>>)
  /\ error' = Null
  /\ currentBrand' = 0
  /\ expandedRows' = {}
  /\ searchQuery' = EmptyString
  /\ meta' = Meta(Num(0), Num(0), Num(0))
  /\ op' = "handleNewSearch"
  /\ result' = Undefined
  /\ UNCHANGED <<loading, sortField, sortDirection, activeAgent, inputMode,
                 showSample, pending, uploadResult, reading, brands,
                 functionVars>>
  /\ ProgressEffect

handleNewSearch ==
  /\ ~Crashed
  /\ view = "results"
  /\ view' = "input"
  /\ file' = Null
  /\ brandNames' = <<>>
  /\ brandText' = <<>>
  /\ brands' = Arr(<<>>)
  /\ artifactFiles' = Arr(<<>>)
  /\ error' = Null
  /\ currentBrand' = 0
  /\ expandedRows' = {}
  /\ searchQuery' = EmptyString
  /\ meta' = Meta(Num(0), Num(0), Num(0))
  /\ op' = "handleNewSearch"
  /\ result' = Undefined
  /\ UNCHANGED <<loading, sortField, sortDirection, activeAgent, inputMode,
                 showSample, pending, uploadResult, reading,
                 functionVars>>
  /\ ProgressEffect

(* the close button of the error banner *)
dismissError ==
  /\ ~Crashed
  /\ Truthy(error)
  /\ error' = Null
  /\ op' = "dismissError"
  /\ result' = Undefined
  /\ UNCHANGED <<brandText, file, brandNames, loading, currentBrand,
                 searchQuery, sortField, sortDirection, expandedRows, view,
                 artifactFiles, activeAgent, meta, inputMode, showSample,
                 pending, uploadResult, reading, current, brands,
                 functionVars>>

toggleRow(idx) ==
  /\ TableShown
  /\ idx \in 0..(Cardinality(Kept(TableSource, searchQuery)) - 1)
  /\ expandedRows' = IF idx \in expandedRows THEN expandedRows \ {idx}
                     ELSE expandedRows \cup {idx}
  /\ op' = "toggleRow"
  /\ result' = Undefined
  /\ UNCHANGED <<brandText, file, brandNames, loading, currentBrand,
                 searchQuery, sortField, sortDirection, view, error,
                 artifactFiles, activeAgent, meta, inputMode, showSample,
                 pending, uploadResult, reading, current, brands,
                 functionVars>>

(* handleSort ordering the brands list itself instead of a copy of it *)
handleSortInPlace(field) ==
  /\ TableShown
  /\ IF sortField = field
     THEN /\ sortDirection' = IF sortDirection = "asc" THEN "desc" ELSE "asc"
          /\ UNCHANGED sortField
     ELSE /\ sortField' = field
          /\ sortDirection' = "asc"
  /\ brands' = Arr([i \in 1..Len(brands.vs) |-> brands.vs[Len(brands.vs) + 1 - i]])
  /\ op' = "handleSort"
  /\ result' = Undefined
  /\ UNCHANGED <<brandText, file, brandNames, loading, currentBrand,
                 searchQuery, expandedRows, view, error, artifactFiles,
                 activeAgent, meta, inputMode, showSample, pending,
                 uploadResult, reading, current, functionVars>>

handleSort(field) ==
  /\ TableShown
  /\ IF sortField = field
     THEN /\ sortDirection' = IF sortDirection = "asc" THEN "desc" ELSE "asc"
          /\ UNCHANGED sortField
     ELSE /\ sortField' = field
          /\ sortDirection' = "asc"
  /\ op' = "handleSort"
  /\ result' = Undefined
  /\ UNCHANGED <<brandText, file, brandNames, loading, currentBrand,
                 searchQuery, expandedRows, view, error, artifactFiles,
                 activeAgent, meta, inputMode, showSample, pending,
                 uploadResult, reading, current, brands, functionVars>>

setSearchQuery(query) ==
  /\ ~Crashed
  /\ view = "results" /\ ~loading
  /\ searchQuery' = query
  /\ op' = "setSearchQuery"
  /\ result' = Undefined
  /\ UNCHANGED <<brandText, file, brandNames, loading, currentBrand, sortField,
                 sortDirection, expandedRows, view, error, artifactFiles,
                 activeAgent, meta, inputMode, showSample, pending,
                 uploadResult, reading, current, brands, functionVars>>

(* the Export CSV button: exportCSV(brands) reads the list, builds the    *)
(* file and assigns no state; a value it cannot quote raises in the       *)
(* handler, which assigns no state either                                 *)
exportCSV ==
  /\ ~Crashed
  /\ view = "results"
  /\ op' = "exportCSV"
  /\ result' = Undefined
  /\ UNCHANGED <<brandText, file, brandNames, loading, currentBrand,
                 searchQuery, sortField, sortDirection, expandedRows, view,
                 error, artifactFiles, activeAgent, meta, inputMode,
                 showSample, pending, uploadResult, reading, current, brands,
                 functionVars>>

setShowSample ==
  /\ PanelShown
  /\ showSample' = ~showSample
  /\ op' = "setShowSample"
  /\ result' = Undefined
  /\ UNCHANGED <<brandText, file, brandNames, loading, currentBrand,
                 searchQuery, sortField, sortDirection, expandedRows, view,
                 error, artifactFiles, activeAgent, meta, inputMode, pending,
                 uploadResult, reading, current, brands, functionVars>>

(* the callback of the progress interval (lines 969-973) *)
progressTick ==
  /\ ~Crashed
  /\ loading /\ Len(brandNames) > 0
  /\ current < Len(brandNames)
  /\ current' = current + 1
  /\ currentBrand' = current + 1
  /\ op' = "progressTick"
  /\ result' = Undefined
  /\ UNCHANGED <<brandText, file, brandNames, loading, searchQuery, sortField,
                 sortDirection, expandedRows, view, error, artifactFiles,
                 activeAgent, meta, inputMode, showSample, pending,
                 uploadResult, reading, brands, functionVars>>

-----------------------------------------------------------------------------
(* The upload flow (src/unnamed/part_000): the page that uploads the CSV  *)
(* file before it calls the agent; its views are 'upload' and 'results'   *)

RECURSIVE SplitRows(_)
(* text.split(/\r?\n/) *)
SplitRows(tokens) ==
  LET cuts == {i \in 1..Len(tokens) : tokens[i] = "\n"} IN
  IF cuts = {} THEN <<tokens>>
  ELSE LET cut == CHOOSE i \in cuts : \A j \in cuts : i <= j
       IN <<SubSeq(tokens, 1, cut - 1)>>
            \o SplitRows(SubSeq(tokens, cut + 1, Len(tokens)))

(* parseCSV *)
parseCSV(text) ==
  LET split == SplitRows(text)
      lines == NonEmptyOnes([i \in 1..Len(split) |-> TrimSpaces(split[i])])
      filtered == SelectSeq(lines, LAMBDA line : HeaderForm(line) \notin HeaderLines)
  IN NonEmptyOnes([i \in 1..Len(filtered) |-> TrimSpaces(StripQuotes(filtered[i]))])

(* parseAgentResponse of the upload flow (lines 94-116) *)
parseAgentResponseUpload(res) ==
  LET raw == Get(Get(res, "response"), "result")
      data == IF IsString(raw) THEN JsonParse(raw.vs).v ELSE raw
  IN IF IsString(raw) /\ ~JsonParse(raw.vs).ok THEN Arr(<<>>)
     ELSE IF IsArray(Get(data, "brands")) THEN Get(data, "brands")
     ELSE IF IsArray(data) THEN data
     ELSE Arr(<<>>)

(* parseResponseMeta of the upload flow (lines 118-133) *)
parseResponseMetaUpload(res) ==
  LET raw == Get(Get(res, "response"), "result")
      data == IF IsString(raw) THEN JsonParse(raw.vs).v ELSE raw
      count(key) == IF IsNumber(Get(data, key)) THEN Get(data, key) ELSE Num(0)
  IN IF IsString(raw) /\ ~JsonParse(raw.vs).ok THEN Meta(Num(0), Num(0), Num(0))
     ELSE Meta(count("total_brands"), count("complete_count"), count("partial_count"))

(* the upload test without its check for an empty list of asset ids *)
UploadFailedUnlessEmpty(up) ==
  ~Truthy(Get(up, "success")) \/ ~IsArray(Get(up, "asset_ids"))

(* !uploadResult.success || !Array.isArray(uploadResult.asset_ids)        *)
(*   || uploadResult.asset_ids.length === 0                               *)
UploadFailed(up) ==
  \/ ~Truthy(Get(up, "success"))
  \/ ~IsArray(Get(up, "asset_ids"))
  \/ Len(Get(up, "asset_ids").vs) = 0

PanelShownUpload == view = "upload" /\ ~loading

handleFileSelectUpload(selectedFile) ==
  /\ PanelShownUpload
  /\ IF ~EndsWithCsv(selectedFile.name)
     THEN /\ error' = Message("Please upload a .csv file")
          /\ UNCHANGED <<file, reading>>
     ELSE /\ Len(reading) < MaxReads
          /\ error' = Null
          /\ file' = selectedFile
          /\ reading' = Append(reading, selectedFile)
  /\ op' = "handleFileSelect"
  /\ result' = Undefined
  /\ UNCHANGED <<brandText, brandNames, loading, currentBrand, searchQuery,
                 sortField, sortDirection, expandedRows, view, artifactFiles,
                 activeAgent, meta, inputMode, showSample, pending,
                 uploadResult, current, brands, functionVars>>

(* reader.onload (lines 441-447) *)
onloadUpload(i) ==
  /\ i \in 1..Len(reading)
  /\ reading' = SubSeq(reading, 1, i - 1) \o SubSeq(reading, i + 1, Len(reading))
  /\ brandNames' = IF reading[i].text # <<>> THEN parseCSV(reading[i].text)
                   ELSE brandNames
  /\ op' = "onload"
  /\ result' = Undefined
  /\ UNCHANGED <<brandText, file, loading, currentBrand, searchQuery, sortField,
                 sortDirection, expandedRows, view, error, artifactFiles,
                 activeAgent, meta, inputMode, showSample, pending,
                 uploadResult, brands, functionVars>>
  /\ ProgressEffect

clearFile ==
  /\ PanelShownUpload
  /\ file # Null /\ Len(brandNames) > 0
  /\ file' = Null
  /\ brandNames' = <<>>
  /\ error' = Null
  /\ op' = "clearFile"
  /\ result' = Undefined
  /\ UNCHANGED <<brandText, loading, currentBrand, searchQuery, sortField,
                 sortDirection, expandedRows, view, artifactFiles, activeAgent,
                 meta, inputMode, showSample, pending, uploadResult, reading,
                 brands, functionVars>>
  /\ ProgressEffect

(* handleCollect up to its first await *)
handleCollectUpload ==
  /\ PanelShownUpload
  /\ op' = "handleCollect"
  /\ result' = Undefined
  /\ IF file = Null \/ Len(brandNames) = 0
     THEN UNCHANGED <<loading, error, currentBrand, activeAgent, pending,
                      current, uploadResult>>
     ELSE /\ loading' = TRUE
          /\ error' = Null
          /\ currentBrand' = 0
          /\ activeAgent' = TRUE
          /\ pending' = "upload"
          /\ current' = 0
          /\ uploadResult' = Undefined
  /\ UNCHANGED <<brandText, file, brandNames, searchQuery, sortField,
                 sortDirection, expandedRows, view, artifactFiles, meta,
                 inputMode, showSample, reading, brands, functionVars>>

(* uploadFiles returns up: handleCollect fails and ends, or goes on to    *)
(* await callAIAgent                                                      *)
uploadReturns(up) ==
  /\ pending = "upload"
  /\ uploadResult' = up
  /\ IF IsNullish(up)
     THEN /\ error' = Message("Cannot read properties of null (reading 'success')")
          /\ loading' = FALSE /\ activeAgent' = FALSE /\ pending' = "none"
     ELSE IF UploadFailed(up)
     THEN /\ error' = Message("Failed to upload file. Please try again.")
          /\ loading' = FALSE /\ activeAgent' = FALSE /\ pending' = "none"
     ELSE /\ pending' = "agent"
          /\ UNCHANGED <<error, loading, activeAgent>>
  /\ op' = "uploadReturns"
  /\ result' = Undefined
  /\ UNCHANGED <<brandText, file, brandNames, currentBrand, searchQuery,
                 sortField, sortDirection, expandedRows, view, artifactFiles,
                 meta, inputMode, showSample, reading, brands, functionVars>>
  /\ ProgressEffect

(* uploadFiles or callAIAgent raises err and the catch block runs *)
callRaisesUpload(err) ==
  /\ pending \in {"upload", "agent"}
  /\ pending' = "none"
  /\ error' = IF err.isError THEN err.message
              ELSE Message("An unexpected error occurred.")
  /\ loading' = FALSE
  /\ activeAgent' = FALSE
  /\ current' = 0
  /\ op' = "callRaises"
  /\ result' = Undefined
  /\ UNCHANGED <<brandText, file, brandNames, currentBrand, searchQuery,
                 sortField, sortDirection, expandedRows, view, artifactFiles,
                 meta, inputMode, showSample, uploadResult, reading, brands,
                 functionVars>>

(* callAIAgent returns res and handleCollect runs to its end (lines 504-521) *)
agentReturnsUpload(res) ==
  /\ pending = "agent"
  /\ pending' = "none"
  /\ result' = res
  /\ IF IsNullish(res)
     THEN /\ error' = Message("Cannot read properties of null (reading 'success')")
          /\ UNCHANGED <<brands, meta, artifactFiles, view>>
     ELSE IF Truthy(Get(res, "success"))
     THEN /\ brands' = parseAgentResponseUpload(res)
          /\ meta' = parseResponseMetaUpload(res)
          /\ artifactFiles' =
               IF IsArray(Get(Get(res, "module_outputs"), "artifact_files"))
               THEN Get(Get(res, "module_outputs"), "artifact_files")
               ELSE artifactFiles
          /\ view' = "results"
          /\ UNCHANGED error
     ELSE /\ error' =
               Coalesce(Get(res, "error"),
                 Coalesce(Get(Get(res, "response"), "message"),
                   Message("An error occurred while processing your request.")))
          /\ UNCHANGED <<brands, meta, artifactFiles, view>>
  /\ loading' = FALSE
  /\ activeAgent' = FALSE
  /\ current' = 0
  /\ op' = "agentReturns"
  /\ UNCHANGED <<brandText, file, brandNames, currentBrand, searchQuery,
                 sortField, sortDirection, expandedRows, inputMode, showSample,
                 uploadResult, reading, functionVars>>

handleNewUpload ==
  /\ view = "results"
  /\ view' = "upload"
  /\ file' = Null
  /\ brandNames' = <<>>
  /\ brands' = Arr(<<>>)
  /\ artifactFiles' = Arr(<<>>)
  /\ error' = Null
  /\ currentBrand' = 0
  /\ expandedRows' = {}
  /\ searchQuery' = EmptyString
  /\ meta' = Meta(Num(0), Num(0), Num(0))
  /\ op' = "handleNewUpload"
  /\ result' = Undefined
  /\ UNCHANGED <<brandText, loading, sortField, sortDirection, activeAgent,
                 inputMode, showSample, pending, uploadResult, reading,
                 functionVars>>
  /\ ProgressEffect

-----------------------------------------------------------------------------
(* Inputs of the resolver *)

MaxEncode == 10

BrandNamed(word) == Obj(<<"brand_name">>, <<Word(word)>>)

Payloads ==
  { Obj(<<"brands">>, <<Arr(<<BrandNamed("Tesla")>>)>>),
    Arr(<<BrandNamed("Nike")>>),
    Obj(<<>>, <<>>),
    Num(7), Bool(TRUE), Bool(FALSE), Null, Word("Nike"), EmptyString }

(* texts that are no JSON: prose, prose around JSON, fenced blocks *)
Texts ==
  LET obj == Obj(<<"brands">>, <<Arr(<<BrandNamed("Spotify")>>)>>)
      ticks == Obj(<<"brands">>, <<Arr(<<Obj(<<"brand_name">>, <<Str(<<Txt("a"), Fence, Txt("b")>>)>>)>>)>>)
  IN { Str(<<Txt("hello")>>),
       Str(<<Ws>>),
       Str(<<Ws, Txt("hello"), Ws>>),
       Str(<<Ws, Json(obj), Ws>>),
       Str(<<Txt("Here"), Ws, Json(obj)>>),
       Str(<<Txt("Here"), Ws, Json(obj), Ws, Txt("done")>>),
       Str(<<Txt("Here"), Ws, Json(Word("Nike"))>>),
       Str(<<Txt("Here"), Ws, Json(Stringify(obj)), Ws, Json(obj)>>),
       Str(<<Fence, Txt("json"), Ws, Json(obj), Ws, Fence>>),
       Str(<<Ws, Fence, Ws, Json(obj), Ws, Fence, Ws>>),
       Str(<<Txt("Result"), Ws, Fence, Txt("json"), Ws, Json(obj), Fence, Ws, Txt("bye")>>),
       Str(<<Fence, Txt("json"), Ws, Json(Stringify(obj)), Ws, Fence>>),
       Str(<<Fence, Txt("json"), Ws, Txt("oops"), Ws, Fence>>),
       Str(<<Fence, Txt("JSON"), Ws, Json(obj), Ws, Fence>>),
       Str(<<Fence, Ws, Fence>>),
       Str(<<Fence, Txt("json"), Ws, Json(obj)>>),
       Str(<<Fence, Txt("json"), Ws, Json(ticks), Ws, Fence>>),
       Str(<<Fence, Txt("json"), Ws, Json(Null), Ws, Fence>>) }

ResolveInputs ==
  {Undefined} \cup Payloads \cup Texts
    \cup {Encode(p, n) : p \in Payloads, n \in 1..MaxEncode}
    \cup {Encode(t, n) : t \in Texts, n \in 1..2}

-----------------------------------------------------------------------------
(* Specification of the resolver: resolve x, then resolve the result *)

InitResolve ==
  /\ pc = "start"
  /\ val \in ResolveInputs
  /\ resolved = Undefined
  /\ reresolved = Undefined
  /\ parseDepths = {}
  /\ r = Undefined /\ mapped = Undefined
  /\ result = Undefined /\ brands = Undefined
  /\ parsedMeta = Undefined
  /\ enteredAt = 0 /\ fromFind = Undefined /\ shown = Undefined
  /\ Constructed

Resolve ==
  /\ pc = "start"
  /\ pc' = "resolved"
  /\ resolved' = resolveValue(val, 0)
  /\ parseDepths' = resolveRun(val, 0).depths
  /\ UNCHANGED <<val, reresolved, mapperVars, extractVars, metaVars, probeVars, pageVars>>

ResolveAgain ==
  /\ pc = "resolved"
  /\ pc' = "done"
  /\ reresolved' = resolveValue(resolved, 0)
  /\ UNCHANGED <<val, resolved, parseDepths, mapperVars, extractVars, metaVars, probeVars, pageVars>>

NextResolve == Resolve \/ ResolveAgain

SpecResolve == InitResolve /\ [][NextResolve]_vars

-----------------------------------------------------------------------------
(* Properties of the resolver *)

RECURSIVE Layers(_)
(* how many times in a row v can be parsed: n for a value encoded n times *)
Layers(v) ==
  IF IsString(v) /\ tryParseString(v) # Null
  THEN 1 + Layers(tryParseString(v))
  ELSE 0

(* C7, as stated: resolve is idempotent, resolve(resolve(x)) = resolve(x) *)
(* for every input x, strings encoded more than six times included.       *)
C7_IdempotentAlways == pc = "done" => reresolved = resolved

(* C7, amended: resolve(resolve(x)) = resolve(x) for every x that can be  *)
(* parsed at most six times in a row (non-strings, unparseable strings,   *)
(* strings encoded up to six times).                                      *)
C7_IdempotentWithinDepth ==
  (pc = "done" /\ Layers(val) <= MaxResolveDepth + 1) => reresolved = resolved

C7_Witness ==
  /\ pc = "done"
  /\ Layers(val) = MaxResolveDepth + 1
  /\ IsObject(resolved)
  /\ reresolved = resolved

(* C8: for a string encoded n times, n up to MaxEncode, resolve calls the *)
(* parser at depths 0..5 only, and when n exceeds the six parses this     *)
(* allows it returns the value it has reached, still an encoded string,   *)
(* unchanged.                                                             *)
C8_DepthBound ==
  pc # "start" =>
    /\ parseDepths \subseteq 0..MaxResolveDepth
    /\ \A p \in Payloads : \A n \in (MaxResolveDepth + 2)..MaxEncode :
         val = Encode(p, n) =>
           /\ resolved = Encode(p, n - (MaxResolveDepth + 1))
           /\ IsString(resolved)
           /\ parseDepths = 0..MaxResolveDepth

C8_Witness ==
  /\ pc = "resolved"
  /\ \E p \in Payloads : IsObject(p) /\ val = Encode(p, 10)
  /\ IsString(resolved)
  /\ Layers(resolved) = 4

(* C9: resolve hands back a non-string unchanged, and hands back the      *)
(* identical, untrimmed string when none of the three parse strategies    *)
(* succeeds (the empty string included); it never raises.                 *)
C9_NeverLosesInput ==
  pc # "start" =>
    /\ resolved.k # "throw"
    /\ ~IsString(val) => resolved = val
    /\ ( /\ IsString(val)
         /\ ~DirectParse(Trim(val.vs)).ok
         /\ ~FencedParse(Trim(val.vs)).ok
         /\ ~SlicedParse(Trim(val.vs)).ok ) => resolved = val

C9_Witness ==
  /\ pc = "resolved"
  /\ IsString(val)
  /\ Trim(val.vs) # val.vs
  /\ Trim(val.vs) # <<>>
  /\ ~DirectParse(Trim(val.vs)).ok
  /\ ~FencedParse(Trim(val.vs)).ok
  /\ ~SlicedParse(Trim(val.vs)).ok
  /\ resolved = val

-----------------------------------------------------------------------------
(* Inputs of the mapper: records of the alternate schema, each field      *)
(* present, null or missing                                               *)

(* the object with the given keys, the pairs whose value is Absent left out *)
Absent == Mk("absent", 0, <<>>, <<>>)

RECURSIVE Pick(_, _)
Pick(seq, keep) ==
  IF seq = <<>> THEN <<>>
  ELSE IF keep[1] THEN <<Head(seq)>> \o Pick(Tail(seq), Tail(keep))
       ELSE Pick(Tail(seq), Tail(keep))

ObjOf(keys, vals) ==
  LET keep == [i \in 1..Len(vals) |-> vals[i] # Absent]
  IN Obj(Pick(keys, keep), Pick(vals, keep))

Url(word) == Str(<<Txt("https://"), Txt(word)>>)

ConfidenceValues ==
  { Absent, Null, EmptyString, Word("Verified"), Word("verified"),
    Word("VERIFIED"), Str(<<Txt("Partially"), Ws, Txt("Verified")>>),
    Str(<<Txt("Not"), Ws, Txt("Found")>>),
    Num(1), Bool(FALSE), Arr(<<Word("Verified")>>) }

SocialValues ==
  { Absent, Null,
    Obj(<<"instagram">>, <<Url("instagram.com/adidas")>>),
    Obj(SocialKeys, [i \in 1..Len(SocialKeys) |-> Url(SocialKeys[i])]) }

CategoryValues ==
  { Absent, Word("Sportswear"), Arr(<<>>),
    Arr(<<Word("Shoes"), Word("Apparel")>>) }

DetailValues ==
  {Absent, Null, Word("none")}
    \cup { ObjOf(<<"logo_url", "product_categories", "social_media", "contact_email">>,
                 <<logo, cats, sm, mail>>) :
             logo \in {Absent, Url("adidas.com/logo.png")},
             cats \in CategoryValues,
             sm \in SocialValues,
             mail \in {Absent, Word("info@adidas.com")} }

AlternateRecords ==
  { ObjOf(<<"brand_name", "selected_official_website", "official_website_turkey",
            "website_details", "confidence">>,
          <<name, site, tr, wd, conf>>) :
      name \in {Absent, Word("Adidas")},
      site \in {Absent, Null, EmptyString, Url("adidas.com")},
      tr \in {Absent, Null, Url("adidas.com.tr")},
      wd \in {Absent, Null,
              Obj(<<"social_media">>, <<Obj(<<"instagram">>, <<Url("instagram.com/adidas")>>)>>)},
      conf \in ConfidenceValues }
  \cup { ObjOf(<<"brand_name", "website_details", "confidence">>,
               <<Word("Adidas"), wd, conf>>) :
           wd \in DetailValues, conf \in {Absent, Word("Verified"), Num(1)} }

MapperInputs == AlternateRecords \cup {Obj(<<>>, <<>>)}

InitMap ==
  /\ pc = "start"
  /\ r \in MapperInputs
  /\ mapped = Undefined
  /\ val = Undefined /\ resolved = Undefined /\ reresolved = Undefined
  /\ parseDepths = {}
  /\ result = Undefined /\ brands = Undefined
  /\ parsedMeta = Undefined
  /\ enteredAt = 0 /\ fromFind = Undefined /\ shown = Undefined
  /\ Constructed

Map ==
  /\ pc = "start"
  /\ pc' = "done"
  /\ mapped' = mapChatGPTResult(r)
  /\ UNCHANGED <<r, resolverVars, extractVars, metaVars, probeVars, pageVars>>

NextMap == Map

SpecMap == InitMap /\ [][NextMap]_vars

(* Properties of the mapper *)

(* the source gives no value: the field is missing or null *)
Missing(v) == IsNullish(v)

(* C10: the mapper is total over every object input: it returns a Brand  *)
(* without raising, every canonical key is present (the seven            *)
(* social_media channels and the three contact_info fields included) and *)
(* a field whose source value is missing is the empty string.            *)
C10_Total ==
  pc = "done" =>
    LET wd == Get(r, "website_details")
        sm == Get(wd, "social_media")
    IN /\ mapped # Thrown
       /\ IsObject(mapped)
       /\ mapped.ks = BrandKeys
       /\ Get(mapped, "social_media").ks = SocialKeys
       /\ Get(mapped, "contact_info").ks = ContactKeys
       /\ Missing(Get(r, "brand_name")) => Get(mapped, "brand_name") = EmptyString
       /\ Missing(Get(r, "confidence")) => Get(mapped, "confidence") = EmptyString
       /\ ( Missing(Get(r, "selected_official_website"))
            /\ Missing(Get(r, "official_website_turkey")) )
            => Get(mapped, "website_url") = EmptyString
       /\ Missing(Get(wd, "logo_url")) => Get(mapped, "logo_url") = EmptyString
       /\ Missing(Get(wd, "product_categories"))
            => Get(mapped, "product_category") = EmptyString
       /\ Missing(Get(wd, "contact_email"))
            => Get(Get(mapped, "contact_info"), "email") = EmptyString
       /\ \A i \in 1..Len(SocialKeys) :
            Missing(Get(sm, SocialKeys[i]))
              => Get(Get(mapped, "social_media"), SocialKeys[i]) = EmptyString

(* C11: the website_url of the mapper's output is                        *)
(* selected_official_website when that field is given (neither missing   *)
(* nor null), otherwise official_website_turkey when that is given,      *)
(* otherwise the empty string.                                           *)
C11_WebsitePrecedence ==
  (pc = "done" /\ mapped # Thrown) =>
    Get(mapped, "website_url") =
      IF ~Missing(Get(r, "selected_official_website"))
      THEN Get(r, "selected_official_website")
      ELSE IF ~Missing(Get(r, "official_website_turkey"))
      THEN Get(r, "official_website_turkey")
      ELSE EmptyString

C11_Witness ==
  /\ pc = "done"
  /\ Get(r, "selected_official_website") = Url("adidas.com")
  /\ Get(r, "official_website_turkey") = Url("adidas.com.tr")
  /\ Get(mapped, "website_url") = Url("adidas.com")

(* confidence is a string equal to 'verified' when case is ignored *)
IsVerified(confidence) ==
  IsString(confidence) /\ toLowerCase(confidence) = Word("verified")

(* C12: the status of the mapper's output is 'Complete' exactly when     *)
(* confidence equals 'verified' ignoring case, and 'Partial' for every   *)
(* other confidence: another string, missing, null, or a value that is   *)
(* no string; it is never a third value.                                 *)
C12_StatusFromConfidence ==
  pc = "done" =>
    /\ mapped # Thrown
    /\ Get(mapped, "status") =
         IF IsVerified(Get(r, "confidence")) THEN Word("Complete")
         ELSE Word("Partial")

-----------------------------------------------------------------------------
(* Inputs of the orchestrator: agent responses.  The brand lists at the  *)
(* different places of a response carry different names, so that the     *)
(* result tells the place it was found at.                               *)

CanonicalBrand(word) ==
  Obj(BrandKeys,
      << Word(word), Url(word), Word("Global"), Word("Verified"),
         EmptyString, Str(<<Txt("Not"), Ws, Txt("Found")>>), Word("1949"),
         EmptyString, EmptyString, Word("Sportswear"),
         Obj(SocialKeys, [i \in 1..Len(SocialKeys) |-> Url(SocialKeys[i])]),
         Obj(ContactKeys, <<Word("info"), EmptyString, EmptyString>>),
         Word("Complete") >>)

BrandList(word) == Arr(<<CanonicalBrand(word), BrandNamed("Zara")>>)

Brands(list) == Obj(<<"brands">>, <<list>>)

(* the record of the alternate-schema example: brand_name, website_details *)
(* with an instagram link, confidence 'Verified'                           *)
AdidasRecord ==
  Obj(<<"brand_name", "website_details", "confidence">>,
      << Word("Adidas"),
         Obj(<<"social_media">>,
             <<Obj(<<"instagram">>, <<Url("instagram.com/adidas")>>)>>),
         Word("Verified") >>)

(* alternate-schema records without brand_name *)
SiteRecord(conf) ==
  Obj(<<"selected_official_website", "website_details", "confidence">>,
      << Url("adidas.com"),
         Obj(<<"social_media">>,
             <<Obj(<<"instagram">>, <<Url("instagram.com/adidas")>>)>>),
         conf >>)

(* a brand whose name holds three backticks *)
TickBrand ==
  Obj(<<"brand_name">>, <<Str(<<Txt("a"), Fence, Txt("b")>>)>>)

RECURSIVE Nest(_, _, _)
(* v under n levels of the container key *)
Nest(key, v, n) == IF n = 0 THEN v ELSE Obj(<<key>>, <<Nest(key, v, n - 1)>>)

MaxNest == 5

ResultValues ==
  { Absent, Null, Obj(<<>>, <<>>), Word("sorry"), Arr(<<>>), Arr(<<Num(1)>>),
    Brands(BrandList("Nike")),
    Brands(Arr(<<BrandNamed("Nike")>>)),
    Brands(Arr(<<>>)),
    Brands(Arr(<<AdidasRecord>>)),
    Brands(Arr(<<AdidasRecord, AdidasRecord>>)),
    Brands(Arr(<<SiteRecord(Word("Verified")), SiteRecord(Word("Low"))>>)),
    Brands(Arr(<<SiteRecord(Num(1))>>)),
    Brands(Arr(<<SiteRecord(Word("Verified")), SiteRecord(Bool(TRUE))>>)),
    Brands(Stringify(BrandList("Nike"))),
    Obj(<<"results">>, <<BrandList("Nike")>>),
    Obj(<<"brands", "results">>, <<Arr(<<Num(1)>>), BrandList("Nike")>>),
    Obj(<<"text">>, <<Stringify(Brands(BrandList("Nike")))>>),
    Obj(<<"message", "data">>, <<Word("ok"), Brands(BrandList("Nike"))>>),
    BrandList("Nike"),
    Stringify(BrandList("Tesla")),
    Arr(<<SiteRecord(Word("Verified"))>>) }
  \cup { Encode(Brands(BrandList("Tesla")), n) : n \in 1..MaxEncode }
  \cup { Encode(Brands(Arr(<<BrandNamed("Tesla")>>)), n) : n \in {1, 2} }
  \cup { Nest("data", Brands(BrandList("Nike")), n) : n \in 1..MaxNest }

ResponseValues ==
  {Absent, Null, Word("sorry"), Brands(BrandList("Puma"))}
    \cup { ObjOf(<<"result", "message">>, <<res, Word("ok")>>) : res \in ResultValues }
    \cup { ObjOf(<<"result", "brands">>, <<res, BrandList("Puma")>>) :
             res \in {Absent, Word("sorry"), Brands(BrandList("Nike")),
                      Brands(Arr(<<SiteRecord(Num(1))>>))} }

(* a fenced block: the fence, the tag json or none, the JSON text, the fence *)
FencedBlocks(v) ==
  { Str(<<Fence, Txt("json"), Ws, Json(v), Ws, Fence>>),
    Str(<<Fence, Ws, Json(v), Ws, Fence>>),
    Str(<<Fence, Txt("json"), Json(v), Fence>>),
    Str(<<Fence, Json(v), Fence>>) }

(* the lists a fenced raw response holds *)
RawLists ==
  { BrandList("Spotify"), Arr(<<BrandNamed("Spotify")>>), Arr(<<TickBrand>>),
    Arr(<<>>) }

RawValues ==
  { Absent, EmptyString, Word("sorry"),
    Stringify(Brands(BrandList("Spotify"))),
    Str(<<Txt("Here"), Ws, Json(Brands(BrandList("Spotify")))>>),
    Str(<<Fence, Txt("JSON"), Ws, Json(Brands(BrandList("Spotify"))), Ws, Fence>>) }
  \cup UNION { FencedBlocks(Brands(l)) : l \in RawLists }

TopLevelExtras == {Absent, Brands(BrandList("Apple"))}

AgentResponses ==
  { ObjOf(<<"success", "response", "raw_response", "data">>,
          <<Bool(TRUE), resp, raw, extra>>) :
      resp \in ResponseValues, raw \in RawValues, extra \in TopLevelExtras }

InitExtract ==
  /\ pc = "start"
  /\ result \in AgentResponses
  /\ brands = Undefined
  /\ val = Undefined /\ resolved = Undefined /\ reresolved = Undefined
  /\ parseDepths = {}
  /\ r = Undefined /\ mapped = Undefined
  /\ parsedMeta = Undefined
  /\ enteredAt = 0 /\ fromFind = Undefined /\ shown = Undefined
  /\ Constructed

Extract ==
  /\ pc = "start"
  /\ pc' = "done"
  /\ brands' = parseAgentResponse(result)
  /\ UNCHANGED <<result, resolverVars, mapperVars, metaVars, probeVars, pageVars>>

NextExtract == Extract

SpecExtract == InitExtract /\ [][NextExtract]_vars

-----------------------------------------------------------------------------
(* Properties of the extractor and the orchestrator *)

ResponseOf(res) == Get(res, "response")
ResultOf(res) == Get(Get(res, "response"), "result")

(* the five strategies, each taken alone *)
Strategy1(res) == findBrandsInObject(resolveValue(ResultOf(res), 0), 0)
Strategy2(res) == findBrandsInObject(ResponseOf(res), 0)
Strategy3(res) == findBrandsInObject(res, 0)
Strategy4(res) ==
  IF HasKey(res, "raw_response")
  THEN findBrandsInObject(resolveValue(Get(res, "raw_response"), 0), 0)
  ELSE Null
Strategy5(res) ==
  LET data == resolveValue(ResultOf(res), 0) IN
  IF IsArray(data) /\ Len(data.vs) > 0 /\ HasKey(data.vs[1], "brand_name")
  THEN data ELSE Null

Strategies(res) ==
  <<Strategy1(res), Strategy2(res), Strategy3(res), Strategy4(res), Strategy5(res)>>

(* the result of the first strategy that yields a non-empty list, else [] *)
FirstYield(res) ==
  LET ys == Strategies(res)
      hits == {i \in 1..Len(ys) : NonEmptyList(ys[i])}
  IN IF hits = {} THEN Arr(<<>>)
     ELSE ys[CHOOSE i \in hits : \A j \in hits : i <= j]

(* a non-empty list whose first element is an object with brand_name *)
CanonicalList(l) ==
  IsArray(l) /\ Len(l.vs) > 0 /\ HasKey(l.vs[1], "brand_name")

(* C1: extractBrands returns the result of the first of the five         *)
(* strategies, in their order, that yields a non-empty list, and the     *)
(* empty list only when none of them yields one.                         *)
C1_FirstStrategyWins == pc = "done" => brands = FirstYield(result)

(* C2: findBrands returns a list or null for every value and depth and   *)
(* never raises; no exception of the schema mapper reaches extractBrands.*)
C2_FindNeverRaises ==
  pc = "done" => \A d \in 0..(MaxFindDepth + 1) :
    /\ findBrandsInObject(resolveValue(ResultOf(result), 0), d) # Thrown
    /\ findBrandsInObject(ResponseOf(result), d) # Thrown
    /\ findBrandsInObject(result, d) # Thrown
    /\ findBrandsInObject(resolveValue(Get(result, "raw_response"), 0), d) # Thrown

(* every element carries brand_name, a website_details object with an   *)
(* instagram link, and confidence 'Verified'                            *)
VerifiedAlternateList(l) ==
  /\ IsArray(l) /\ Len(l.vs) > 0
  /\ \A i \in 1..Len(l.vs) :
       /\ HasKey(l.vs[i], "brand_name")
       /\ IsString(Get(Get(Get(l.vs[i], "website_details"), "social_media"), "instagram"))
       /\ Get(l.vs[i], "confidence") = Word("Verified")

(* C3: for response.result = {brands: L}, every element of L carrying    *)
(* brand_name, website_details.social_media.instagram = u and confidence *)
(* 'Verified', extractBrands returns one Brand per element, with         *)
(* social_media.instagram = u and status = 'Complete'.                   *)
C3_AlternateMapped ==
  LET l == Get(ResultOf(result), "brands") IN
  (pc = "done" /\ IsObject(ResultOf(result)) /\ VerifiedAlternateList(l)) =>
    /\ IsArray(brands)
    /\ Len(brands.vs) = Len(l.vs)
    /\ \A i \in 1..Len(l.vs) :
         /\ Get(Get(brands.vs[i], "social_media"), "instagram")
              = Get(Get(Get(l.vs[i], "website_details"), "social_media"), "instagram")
         /\ Get(brands.vs[i], "status") = Word("Complete")

(* C4: when response.result is an object whose brands key holds a        *)
(* non-empty list whose first element is an object with brand_name,      *)
(* extractBrands returns exactly that list, every element unchanged.     *)
C4_CanonicalPassThrough ==
  LET l == Get(ResultOf(result), "brands") IN
  (pc = "done" /\ IsObject(ResultOf(result)) /\ CanonicalList(l)) => brands = l

C4_Witness ==
  LET l == Get(ResultOf(result), "brands") IN
  /\ pc = "done"
  /\ IsObject(ResultOf(result))
  /\ CanonicalList(l)
  /\ Len(l.vs) = 2
  /\ HasKey(l.vs[1], "website_details")
  /\ HasKey(result, "raw_response")
  /\ brands = l

RECURSIVE EncodingDepth(_)
(* n when v is a value that is no JSON text, JSON-encoded n times *)
EncodingDepth(v) ==
  IF IsString(v) /\ Len(v.vs) = 1 /\ v.vs[1].k = "json"
  THEN 1 + EncodingDepth(v.vs[1].vs[1])
  ELSE 0

RECURSIVE Unwrap(_)
(* the value under all the encodings of v *)
Unwrap(v) ==
  IF IsString(v) /\ Len(v.vs) = 1 /\ v.vs[1].k = "json"
  THEN Unwrap(v.vs[1].vs[1])
  ELSE v

(* response.result is the JSON encoding, once or several times, of an    *)
(* object {brands: L} with L canonical                                   *)
EncodedBrands(res) ==
  /\ EncodingDepth(ResultOf(res)) >= 1
  /\ IsObject(Unwrap(ResultOf(res)))
  /\ CanonicalList(Get(Unwrap(ResultOf(res)), "brands"))

(* C5, as stated: when response.result is the single or repeated JSON    *)
(* encoding of {brands: L}, L canonical, extractBrands returns L.        *)
C5_EncodedAnyDepth ==
  (pc = "done" /\ EncodedBrands(result)) =>
    brands = Get(Unwrap(ResultOf(result)), "brands")

(* C5, amended: when response.result is {brands: L}, L canonical,        *)
(* JSON-encoded at most six times, extractBrands returns L.              *)
C5_EncodedWithinDepth ==
  ( /\ pc = "done"
    /\ EncodedBrands(result)
    /\ EncodingDepth(ResultOf(result)) <= MaxResolveDepth + 1 ) =>
    brands = Get(Unwrap(ResultOf(result)), "brands")

C5_Witness ==
  /\ pc = "done"
  /\ EncodedBrands(result)
  /\ EncodingDepth(ResultOf(result)) = MaxResolveDepth + 1
  /\ brands = Get(Unwrap(ResultOf(result)), "brands")
  /\ HasKey(brands.vs[1], "brand_name")

(* an envelope without a response object and without data of its own *)
NoUsableResponse(res) ==
  /\ ~IsObject(ResponseOf(res))
  /\ \A i \in 1..Len(res.ks) : res.ks[i] \in {"success", "response", "raw_response"}

(* the canonical lists a fenced raw response holds *)
FencedLists == {l \in RawLists : CanonicalList(l)}

(* raw_response is a fenced block holding {brands: l} *)
FencedRaw(res, l) == Get(res, "raw_response") \in FencedBlocks(Brands(l))

(* strategies 1 to 3 yield nothing and strategy 4 returns l *)
FourthStrategyGives(res, l) ==
  /\ ~NonEmptyList(Strategy1(res))
  /\ ~NonEmptyList(Strategy2(res))
  /\ ~NonEmptyList(Strategy3(res))
  /\ Strategy4(res) = l
  /\ brands = l

(* C6, as stated: without a usable response object and with raw_response *)
(* a fenced block, json-tagged or not, holding {brands: L}, L a          *)
(* non-empty canonical list, strategies 1, 2 and 3 yield nothing and     *)
(* strategy 4 returns L.                                                 *)
C6_FencedRawAnyList ==
  \A l \in FencedLists :
    (pc = "done" /\ NoUsableResponse(result) /\ FencedRaw(result, l))
      => FourthStrategyGives(result, l)

(* C6, amended: the same, for every L whose JSON text holds no three     *)
(* backticks.                                                            *)
C6_FencedRawNoTicks ==
  \A l \in FencedLists :
    ( /\ pc = "done"
      /\ NoUsableResponse(result)
      /\ FencedRaw(result, l)
      /\ ~TextHas(Json(l), "fence") )
      => FourthStrategyGives(result, l)

C6_Witness ==
  /\ pc = "done"
  /\ NoUsableResponse(result)
  /\ Get(result, "raw_response")
       = Str(<<Fence, Txt("json"), Ws, Json(Brands(BrandList("Spotify"))), Ws, Fence>>)
  /\ brands = BrandList("Spotify")

(* every canonical key is a key of the record, the seven channels of    *)
(* social_media and the three fields of contact_info included           *)
AllKeysPresent(brand) ==
  /\ \A i \in 1..Len(BrandKeys) : HasKey(brand, BrandKeys[i])
  /\ \A i \in 1..Len(SocialKeys) : HasKey(Get(brand, "social_media"), SocialKeys[i])
  /\ \A i \in 1..Len(ContactKeys) : HasKey(Get(brand, "contact_info"), ContactKeys[i])

(* C13: every Brand of a list returned by extractBrands has every        *)
(* canonical key present (the thirteen top-level keys, the seven         *)
(* social_media channels, the three contact_info fields); a value that   *)
(* is not there is '' or 'Not Found', never a missing key.               *)
C13_AllKeysPresent ==
  pc = "done" => \A i \in 1..Len(brands.vs) : AllKeysPresent(brands.vs[i])

-----------------------------------------------------------------------------
(* Inputs of parseResponseMeta: responses with counts at the places it    *)
(* probes.  The counts at place n are total n, complete n + 20, partial   *)
(* n + 40, so that the result tells the place it was read at.             *)

CountKeys == <<"total_brands", "complete_count", "partial_count">>

CountsAt(n) == Obj(CountKeys, <<Num(n), Num(n + 20), Num(n + 40)>>)

(* an object with counts in its text field (when a), of its own (when b)  *)
(* and under its result field (when c); res is the result field otherwise *)
PlaceObj(a, b, c, n, res) ==
  ObjOf(<<"text">> \o CountKeys \o <<"result">>,
        << IF a THEN Stringify(CountsAt(n)) ELSE Absent,
           IF b THEN Num(n + 1) ELSE Absent,
           IF b THEN Num(n + 21) ELSE Absent,
           IF b THEN Num(n + 41) ELSE Absent,
           IF c THEN CountsAt(n + 2) ELSE res >>)

TotalValues ==
  {Absent, Null, Word("3"), Bool(TRUE), Num(0), Num(3), Num(-1)}

CountValues ==
  {Absent, Null, Word("2"), Bool(TRUE), Arr(<<>>), Num(0), Num(2), Num(-2)}

(* response.result values that hold counts of every kind *)
CountedResults ==
  { ObjOf(CountKeys, <<t, c, p>>) :
      t \in TotalValues, c \in CountValues, p \in CountValues }

MetaRawValues ==
  {Absent, EmptyString, Word("sorry")}
    \cup { Stringify(PlaceObj(a, b, c, 10, Absent)) :
             a \in BOOLEAN, b \in BOOLEAN, c \in BOOLEAN }

MetaResponses ==
  { ObjOf(<<"success", "response", "raw_response", "text">> \o CountKeys,
          << Bool(TRUE),
             PlaceObj(f[4], f[5], FALSE, 4,
                      Stringify(PlaceObj(f[1], f[2], f[3], 1, Absent))),
             raw,
             IF f[6] THEN Stringify(CountsAt(7)) ELSE Absent,
             IF f[7] THEN Num(8) ELSE Absent,
             IF f[7] THEN Num(28) ELSE Absent,
             IF f[7] THEN Num(48) ELSE Absent >>) :
      f \in [1..7 -> BOOLEAN], raw \in MetaRawValues }
  \cup { ObjOf(<<"success", "response", "result">>,
               <<Bool(TRUE), resp, CountsAt(9)>>) :
           resp \in { Absent, Null, Word("sorry"),
                      Obj(<<"result">>, <<Arr(<<CountsAt(1)>>)>>),
                      Obj(<<"result">>, <<Obj(<<"text">>, <<CountsAt(1)>>)>>),
                      Obj(<<"result">>, <<Obj(<<"text">>, <<Stringify(Arr(<<CountsAt(1)>>))>>)>>),
                      Obj(<<"result">>, <<Obj(<<"text">>, <<Encode(CountsAt(1), 2)>>)>>),
                      Obj(<<"result">>, <<Obj(<<"result">>, <<Encode(CountsAt(3), 3)>>)>>) } }
  \cup { Obj(<<"success", "response">>, <<Bool(TRUE), Obj(<<"result">>, <<res>>)>>) :
           res \in CountedResults }

InitMeta ==
  /\ pc = "start"
  /\ result \in MetaResponses
  /\ parsedMeta = Undefined
  /\ enteredAt = 0 /\ fromFind = Undefined /\ shown = Undefined
  /\ brands = Undefined
  /\ val = Undefined /\ resolved = Undefined /\ reresolved = Undefined
  /\ parseDepths = {}
  /\ r = Undefined /\ mapped = Undefined
  /\ Constructed

ParseMeta ==
  /\ pc = "start"
  /\ pc' = "done"
  /\ parsedMeta' = parseResponseMeta(result)
  /\ UNCHANGED <<extractVars, resolverVars, mapperVars, probeVars, pageVars>>

NextMeta == ParseMeta

SpecMeta == InitMeta /\ [][NextMeta]_vars

(* Properties of parseResponseMeta *)

(* the three places of a candidate, in the order of the claim: its parsed *)
(* text field, the candidate, its resolved result field; none for a       *)
(* candidate that is no object                                            *)
PlacesOf(candidate) ==
  IF IsObject(candidate)
  THEN << tryParseString(Get(candidate, "text")),
          candidate,
          resolveValue(Get(candidate, "result"), 0) >>
  ELSE <<>>

(* all the places of a response: those of the resolved response.result,   *)
(* of response, of the response itself, of the resolved raw_response      *)
AllPlaces(res) ==
  PlacesOf(resolveValue(ResultOf(res), 0)) \o PlacesOf(ResponseOf(res))
    \o PlacesOf(res) \o PlacesOf(resolveValue(Get(res, "raw_response"), 0))

(* the places that are objects with a numeric total_brands *)
Counted(res) == {i \in 1..Len(AllPlaces(res)) : HasTotal(AllPlaces(res)[i])}

(* the first of them *)
FirstCounted(res) ==
  AllPlaces(res)[CHOOSE i \in Counted(res) : \A j \in Counted(res) : i <= j]

NoCounts == Meta(Num(0), Num(0), Num(0))

(* C14: extractMeta probes the resolved response.result, response, the    *)
(* whole response and the resolved raw_response, in this order, skipping  *)
(* what is no object; in each it looks at the parsed text field, then the *)
(* candidate, then its resolved result field; it returns the counts of    *)
(* the first place with a numeric total_brands, and {0, 0, 0} when there  *)
(* is none.                                                               *)
C14_FirstCountedPlace ==
  pc = "done" =>
    IF Counted(result) = {} THEN parsedMeta = NoCounts
    ELSE LET place == FirstCounted(result) IN
         /\ Get(parsedMeta, "total") = Get(place, "total_brands")
         /\ IsNumber(Get(place, "complete_count"))
              => Get(parsedMeta, "complete") = Get(place, "complete_count")
         /\ IsNumber(Get(place, "partial_count"))
              => Get(parsedMeta, "partial") = Get(place, "partial_count")

C14_Witness ==
  /\ pc = "done"
  /\ ~HasTotal(resolveValue(ResultOf(result), 0))
  /\ HasTotal(tryParseString(Get(ResponseOf(result), "text")))
  /\ HasTotal(ResponseOf(result))
  /\ HasTotal(result)
  /\ parsedMeta = Meta(Num(4), Num(24), Num(44))

(* a count as the claim gives it: the number, and 0 for what is no number *)
CountOrZero(v) == IF IsNumber(v) THEN v ELSE Num(0)

(* C15: complete and partial are, each on its own, the numeric            *)
(* complete_count and partial_count of the place the total was read at,   *)
(* and 0 when that count is no number (missing, null, a string, anything  *)
(* else); total, complete and partial are always numbers, none negative.  *)
C15_NumericCounts ==
  pc = "done" =>
    /\ \A key \in {"total", "complete", "partial"} :
         IsNumber(Get(parsedMeta, key)) /\ Get(parsedMeta, key).n >= 0
    /\ Counted(result) # {} =>
         /\ Get(parsedMeta, "complete")
              = CountOrZero(Get(FirstCounted(result), "complete_count"))
         /\ Get(parsedMeta, "partial")
              = CountOrZero(Get(FirstCounted(result), "partial_count"))

-----------------------------------------------------------------------------
(* Inputs of the page: what the user types and selects, what callAIAgent  *)
(* returns or raises                                                      *)

BrandTexts ==
  { <<" ">>, <<"Nike", ",", " ", "Zara">>, <<"Brand", "\n", "dq", "Nike", "dq">> }

Files ==
  { [name |-> <<"brands", ".csv">>, text |-> <<"brand_name", "\n", "Nike", "\n", "Zara">>],
    [name |-> <<"empty", ".csv">>, text |-> <<>>],
    [name |-> <<"brands", ".txt">>, text |-> <<"Nike">>],
    [name |-> <<"brands", ".CSV">>, text |-> <<"Nike">>] }

(* a brand whose status is no string, and one whose name is no string *)
OddStatusBrand == Obj(<<"brand_name", "status">>, <<Word("Nike"), Num(1)>>)
OddNameBrand == Obj(<<"brand_name", "status">>, <<Num(7), Word("Complete")>>)

ArtifactList == Arr(<<Obj(<<"file_url">>, <<Word("https://files/brands.csv")>>)>>)

(* response.result values of a call that succeeded *)
PageResults ==
  { Absent, Word("sorry"),
    Obj(<<"message", "brands">>, <<Word("ok"), Arr(<<SiteRecord(Num(1))>>)>>),
    Stringify(Brands(Arr(<<BrandNamed("Tesla")>>))),
    Obj(<<"brands">> \o CountKeys,
        <<BrandList("Nike"), Num(5), Word("2"), Null>>),
    Brands(Arr(<<BrandNamed("Nike"), OddStatusBrand>>)),
    Brands(Arr(<<BrandNamed("Zara"), OddNameBrand>>)) }

PageResponses ==
  { ObjOf(<<"success", "response">>,
          <<Bool(TRUE), ObjOf(<<"result">>, <<res>>)>>) : res \in PageResults }
  \cup
  { Obj(<<"success", "response", "module_outputs">>,
        << Bool(TRUE), Obj(<<"result">>, <<Brands(BrandList("Nike"))>>),
           Obj(<<"artifact_files">>, <<ArtifactList>>) >>),
    Obj(<<"success", "response", "module_outputs">>,
        << Bool(TRUE), Obj(<<"result">>, <<Arr(<<Num(1)>>)>>),
           Obj(<<"artifact_files">>, <<ArtifactList>>) >>),
    Null,
    Obj(<<"success">>, <<Bool(FALSE)>>),
    Obj(<<"success", "error">>, <<Bool(FALSE), Word("Agent unavailable")>>),
    Obj(<<"success", "error", "response">>,
        << Bool(FALSE), EmptyString,
           Obj(<<"message", "result">>,
               <<Word("Quota exceeded"), Brands(BrandList("Nike"))>>) >>),
    Obj(<<"success", "error", "response">>,
        << Bool(FALSE), Null,
           Obj(<<"message", "result">>,
               <<Word("Quota exceeded"), Brands(BrandList("Nike"))>>) >>) }

(* what callAIAgent raises: an Error with a message, or another value *)
Raised ==
  { [isError |-> TRUE, message |-> Message("Failed to fetch")],
    [isError |-> TRUE, message |-> EmptyString],
    [isError |-> FALSE, message |-> Word("boom")] }

InitPage ==
  /\ pc = "page"
  /\ val = Undefined /\ resolved = Undefined /\ reresolved = Undefined
  /\ parseDepths = {}
  /\ r = Undefined /\ mapped = Undefined
  /\ parsedMeta = Undefined
  /\ enteredAt = 0 /\ fromFind = Undefined /\ shown = Undefined
  /\ result = Undefined
  /\ brands = Arr(<<>>)
  /\ Constructed

NextPage ==
  \/ \E mode \in {"text", "csv"} : setInputMode(mode)
  \/ \E text \in BrandTexts : setBrandText(text)
  \/ \E selectedFile \in Files : handleFileSelect(selectedFile)
  \/ \E i \in 1..MaxReads : onload(i)
  \/ clearInput
  \/ handleCollect
  \/ \E res \in PageResponses : agentReturns(res)
  \/ \E err \in Raised : agentRaises(err)
  \/ handleNewSearch
  \/ dismissError
  \/ \E idx \in {0} : toggleRow(idx)
  \/ \E field \in {"status"} : handleSort(field)
  \/ \E query \in {EmptyString, Word("nike")} : setSearchQuery(query)
  \/ setShowSample
  \/ exportCSV
  \/ progressTick

SpecPage == InitPage /\ [][NextPage]_vars

-----------------------------------------------------------------------------
(* Properties of the page *)

(* the step is the continuation of handleCollect on what callAIAgent      *)
(* returned, now in result'                                               *)
Returned == pending = "agent" /\ pending' = "none" /\ op' = "agentReturns"

(* the message names the type of response.result and each of its keys *)
NamesShape(message, data) ==
  /\ IsString(message)
  /\ Includes(message.vs, <<Txt(TypeOf(data))>>)
  /\ IsObject(data) =>
       \A i \in 1..Len(data.ks) : Includes(message.vs, <<Txt(data.ks[i])>>)

(* C16: when callAIAgent returns success = true and extractBrands yields  *)
(* the empty list, handleCollect sets an error that is not null and whose *)
(* text names the type and the top-level keys of response.result, leaves  *)
(* view at 'input' and does not set brands, meta or artifactFiles; the    *)
(* results view is never shown with an empty table.                       *)
C16_ExtractionFailure ==
  /\ [][ ( /\ Returned
           /\ Truthy(Get(result', "success"))
           /\ parseAgentResponse(result') = Arr(<<>>) ) =>
         ( /\ error' # Null
           /\ NamesShape(error', ResultOf(result'))
           /\ view' = "input"
           /\ brands' = brands
           /\ meta' = meta
           /\ artifactFiles' = artifactFiles ) ]_vars
  /\ [](view = "results" => Len(brands.vs) > 0)

C16_Witness ==
  /\ op = "agentReturns"
  /\ Truthy(Get(result, "success"))
  /\ IsObject(ResultOf(result))
  /\ ResultOf(result).ks = <<"message", "brands">>
  /\ parseAgentResponse(result) = Arr(<<>>)
  /\ error = ParseFailure(result)
  /\ view = "input"
  /\ brands = Arr(<<>>)

(* the message the claim names for a failed call: the agent's error field *)
(* if present, else response.message, else the fixed message              *)
ClaimedFailureMessage(res) ==
  IF HasKey(res, "error") /\ ~IsNullish(Get(res, "error")) THEN Get(res, "error")
  ELSE IF ~IsNullish(Get(ResponseOf(res), "message"))
  THEN Get(ResponseOf(res), "message")
  ELSE Message("An error occurred while processing your request. Please try again.")

(* C17: when callAIAgent returns success = false or raises, then after    *)
(* handleCollect a non-empty error message is set (the agent's error      *)
(* field if present, else response.message, else the fixed message; for   *)
(* an exception its message or the fixed one), view stays 'input', and    *)
(* brands, meta and artifactFiles are unchanged.                          *)
C17_FailureSurfaced ==
  [][ ( /\ pending = "agent" /\ pending' = "none"
        /\ \/ op' = "agentRaises"
           \/ op' = "agentReturns" /\ IsObject(result')
                /\ ~Truthy(Get(result', "success")) ) =>
      ( /\ IsString(error') /\ error' # EmptyString
        /\ op' = "agentReturns" => error' = ClaimedFailureMessage(result')
        /\ view' = "input"
        /\ brands' = brands
        /\ meta' = meta
        /\ artifactFiles' = artifactFiles ) ]_vars

(* the step is an input error: handleFileSelect turning a file down, or   *)
(* handleCollect run with no brand names                                  *)
FileTurnedDown == op' = "handleFileSelect" /\ reading' = reading
CollectWithoutNames == op' = "handleCollect" /\ Len(brandNames) = 0

(* file, brandNames, loading and view stay, and nothing is awaited *)
InputUntouched ==
  /\ file' = file
  /\ brandNames' = brandNames
  /\ loading' = loading
  /\ view' = view
  /\ pending' = pending /\ pending = "none"
  /\ reading' = reading

(* C18, as stated: an input error (a file whose name does not end in      *)
(* .csv, or collect with an empty list of brand names) at once sets an    *)
(* error message the user sees and makes no network call; file,           *)
(* brandNames, loading and view are unchanged.                            *)
C18_InputErrorsSurface ==
  [][ (FileTurnedDown \/ CollectWithoutNames) =>
      (Truthy(error') /\ InputUntouched) ]_vars

(* C18, amended: a file whose name does not end in .csv sets the error    *)
(* 'Please upload a .csv file', and only a file whose name ends in .csv   *)
(* is taken; collect with an empty list of brand names returns at once    *)
(* and sets nothing, no error message either; neither makes a network     *)
(* call, and file, brandNames, loading and view are unchanged.            *)
C18_InputErrorsAbort ==
  [][ /\ FileTurnedDown =>
         (error' = Message("Please upload a .csv file") /\ InputUntouched)
      /\ CollectWithoutNames => (error' = error /\ InputUntouched)
      /\ (file' # file /\ file' # Null) =>
         file'.name[Len(file'.name)] = ".csv" ]_vars

C18_Witness ==
  /\ op = "handleFileSelect"
  /\ error = Message("Please upload a .csv file")
  /\ file # Null
  /\ Len(brandNames) = 2
  /\ pending = "none"
  /\ view = "input"

(* C20: handleNewSearch sets brands to [], meta to {0, 0, 0},             *)
(* artifactFiles to [], expandedRows and searchQuery to empty, error to   *)
(* null, clears brandNames, brandText and file and sets view to 'input';  *)
(* afterwards brands changes only when the continuation of a new          *)
(* handleCollect sets it to what it extracted from the new response.      *)
C20_NewSearchDiscards ==
  /\ [][ op' = "handleNewSearch" =>
         ( /\ brands' = Arr(<<>>)
           /\ meta' = Meta(Num(0), Num(0), Num(0))
           /\ artifactFiles' = Arr(<<>>)
           /\ expandedRows' = {}
           /\ searchQuery' = EmptyString
           /\ error' = Null
           /\ brandNames' = <<>> /\ brandText' = <<>> /\ file' = Null
           /\ view' = "input" ) ]_vars
  /\ [][ brands' # brands =>
         \/ op' = "handleNewSearch"
         \/ Returned /\ brands' = parseAgentResponse(result') ]_vars

C20_Witness ==
  /\ op = "handleNewSearch"
  /\ view = "input"
  /\ brands = Arr(<<>>)
  /\ meta = Meta(Num(0), Num(0), Num(0))
  /\ sortDirection = "desc"
  /\ Len(reading) = 1

(* C21: while view = 'results', sorting, changing the search query,       *)
(* toggling a row, exporting CSV and dismissing the error leave the       *)
(* brands list as it is, elements and order; only a new search changes it *)
(* there, and apart from a new search brands is written only by the       *)
(* continuation of handleCollect on a successful extraction.              *)
C21_BrandsHeld ==
  /\ [][ op' \in {"handleSort", "setSearchQuery", "toggleRow", "exportCSV",
                  "dismissError"} => brands' = brands ]_vars
  /\ [][ (view = "results" /\ op' # "handleNewSearch") =>
         (brands' = brands /\ view' = "results") ]_vars
  /\ [][ (brands' # brands /\ op' # "handleNewSearch") =>
         ( /\ Returned
           /\ Truthy(Get(result', "success"))
           /\ brands' = parseAgentResponse(result')
           /\ Len(brands'.vs) > 0 ) ]_vars

C21_Witness ==
  /\ op = "handleSort"
  /\ view = "results"
  /\ sortField = "status" /\ sortDirection = "desc"
  /\ searchQuery = Word("nike")
  /\ expandedRows = {0}
  /\ Len(brands.vs) = 2

(* callAIAgent has returned or raised: the call is no longer in flight *)
Settled == pending = "agent" /\ pending' = "none"

(* C29: a handleCollect that passes the empty-list guard sets loading and *)
(* activeAgent to true together; the step on which its agent call settles *)
(* sets both back to false, on success, extraction failure, a failure the *)
(* agent reports and a raised transport error alike; the two flags are    *)
(* never true while no agent call is in flight.                           *)
C29_BusyWhileInFlight ==
  /\ [][ (op' = "handleCollect" /\ Len(brandNames) > 0) =>
         (loading' /\ activeAgent' /\ pending' = "agent") ]_vars
  /\ [][ Settled =>
         ( /\ op' \in {"agentReturns", "agentRaises"}
           /\ ~loading' /\ ~activeAgent' ) ]_vars
  /\ [](pending = "none" => (~loading /\ ~activeAgent))
  /\ [](loading <=> activeAgent)
  /\ [](pending = "agent" => ~Crashed)

C29_Witness ==
  /\ op = "agentRaises"
  /\ pending = "none"
  /\ error = Message("Failed to fetch")
  /\ ~loading /\ ~activeAgent
  /\ Len(brandNames) > 0

(* C30: in every state of the page view = 'results' implies that brands   *)
(* is non-empty and meta.total > 0; the results view is entered only by   *)
(* the continuation of a handleCollect whose extraction returned at least *)
(* one brand, and it is left only through handleNewSearch, which clears   *)
(* brands and sets view to 'input' in the same step.                      *)
C30_ResultsNeverEmpty ==
  /\ [](view = "results" =>
         (Len(brands.vs) > 0 /\ Positive(Get(meta, "total"))))
  /\ [][ (view # "results" /\ view' = "results") =>
         ( /\ Returned
           /\ Len(parseAgentResponse(result').vs) > 0
           /\ brands' = parseAgentResponse(result') ) ]_vars
  /\ [][ (view = "results" /\ view' # "results") =>
         ( /\ op' = "handleNewSearch"
           /\ brands' = Arr(<<>>)
           /\ view' = "input" ) ]_vars

C30_Witness ==
  /\ op = "agentReturns"
  /\ view = "results"
  /\ Len(brands.vs) = 2
  /\ ~Positive(Get(parseResponseMeta(result), "total"))
  /\ Get(meta, "total") = Num(2)

-----------------------------------------------------------------------------
(* The upload flow: inputs, specification, properties *)

(* what uploadFiles returns *)
UploadResults ==
  LET AssetIds == Arr(<<Word("asset-1")>>) IN
  { Obj(<<"success", "asset_ids">>, <<Bool(TRUE), AssetIds>>),
    Obj(<<"success", "asset_ids">>, <<Bool(FALSE), AssetIds>>),
    Obj(<<"success", "asset_ids">>, <<Bool(TRUE), Arr(<<>>)>>),
    Obj(<<"success", "asset_ids">>, <<Bool(TRUE), Word("asset-1")>>),
    Obj(<<"success">>, <<Bool(TRUE)>>),
    Obj(<<"success", "error">>, <<Bool(FALSE), Word("too large")>>),
    Null }

UploadResponses ==
  { Obj(<<"success", "response", "module_outputs">>,
        << Bool(TRUE),
           Obj(<<"result">>, <<Obj(<<"brands">> \o CountKeys,
                                   <<BrandList("Nike"), Num(2), Word("1"), Num(1)>>)>>),
           Obj(<<"artifact_files">>, <<ArtifactList>>) >>),
    Obj(<<"success", "response">>,
        <<Bool(TRUE), Obj(<<"result">>, <<Stringify(BrandList("Tesla"))>>)>>),
    Obj(<<"success", "response">>,
        <<Bool(TRUE), Obj(<<"result">>, <<Str(<<Txt("Here"), Ws, Json(BrandList("Tesla"))>>)>>)>>),
    Obj(<<"success", "response">>, <<Bool(TRUE), Obj(<<"result">>, <<Null>>)>>),
    Obj(<<"success", "error">>, <<Bool(FALSE), Word("Agent unavailable")>>),
    Obj(<<"success", "response">>,
        <<Bool(FALSE), Obj(<<"message">>, <<Word("Quota exceeded")>>)>>),
    Obj(<<"success">>, <<Bool(FALSE)>>),
    Null }

InitUpload ==
  /\ pc = "page"
  /\ val = Undefined /\ resolved = Undefined /\ reresolved = Undefined
  /\ parseDepths = {}
  /\ r = Undefined /\ mapped = Undefined
  /\ parsedMeta = Undefined
  /\ enteredAt = 0 /\ fromFind = Undefined /\ shown = Undefined
  /\ result = Undefined
  /\ brands = Arr(<<>>)
  /\ brandText = <<>>
  /\ file = Null
  /\ brandNames = <<>>
  /\ loading = FALSE
  /\ currentBrand = 0
  /\ searchQuery = EmptyString
  /\ sortField = "brand_name"
  /\ sortDirection = "asc"
  /\ expandedRows = {}
  /\ view = "upload"
  /\ error = Null
  /\ artifactFiles = Arr(<<>>)
  /\ activeAgent = FALSE
  /\ meta = Meta(Num(0), Num(0), Num(0))
  /\ inputMode = "csv"
  /\ showSample = FALSE
  /\ pending = "none"
  /\ uploadResult = Undefined
  /\ reading = <<>>
  /\ current = 0
  /\ op = "constructed"

NextUpload ==
  \/ \E selectedFile \in Files : handleFileSelectUpload(selectedFile)
  \/ \E i \in 1..MaxReads : onloadUpload(i)
  \/ clearFile
  \/ handleCollectUpload
  \/ \E up \in UploadResults : uploadReturns(up)
  \/ \E err \in Raised : callRaisesUpload(err)
  \/ \E res \in UploadResponses : agentReturnsUpload(res)
  \/ handleNewUpload
  \/ dismissError
  \/ progressTick

SpecUpload == InitUpload /\ [][NextUpload]_vars

(* C19: in the upload flow, when uploadFiles fails (success false,        *)
(* asset_ids no list, or an empty list), handleCollect sets the error     *)
(* 'Failed to upload file. Please try again.', turns loading and          *)
(* activeAgent off, leaves view and brands unchanged, and does not call   *)
(* callAIAgent.                                                           *)
C19_UploadFailure ==
  [][ ( /\ pending = "upload"
        /\ op' = "uploadReturns"
        /\ IsObject(uploadResult')
        /\ \/ Get(uploadResult', "success") # Bool(TRUE)
           \/ Get(uploadResult', "asset_ids").k # "arr"
           \/ Get(uploadResult', "asset_ids").vs = <<>> ) =>
      ( /\ error' = Message("Failed to upload file. Please try again.")
        /\ loading' = FALSE
        /\ activeAgent' = FALSE
        /\ view' = view
        /\ brands' = brands
        /\ pending' = "none" ) ]_vars

C19_Witness ==
  /\ op = "uploadReturns"
  /\ uploadResult = Obj(<<"success", "asset_ids">>, <<Bool(TRUE), Arr(<<>>)>>)
  /\ error = Message("Failed to upload file. Please try again.")
  /\ ~loading /\ ~activeAgent
  /\ pending = "none"
  /\ view = "upload"
  /\ file # Null

-----------------------------------------------------------------------------
(* Strategy 5 against strategy 1, on the specification of the extractor *)

(* extractBrands with strategy 5 removed: the first of strategies 1 to 4 *)
(* that raises gives the empty list, the first that yields a non-empty   *)
(* list gives that list, and the empty list is returned otherwise        *)
WithoutStrategy5(res) ==
  LET ys == Strategies(res)
      stops == {i \in 1..4 : ys[i] = Thrown \/ NonEmptyList(ys[i])}
  IN IF stops = {} THEN Arr(<<>>)
     ELSE LET i == CHOOSE k \in stops : \A j \in stops : k <= j
          IN IF ys[i] = Thrown THEN Arr(<<>>) ELSE ys[i]

(* C28: whenever the resolved response.result is a non-empty list whose  *)
(* first element is an object with brand_name, strategy 1 returns that   *)
(* list; extractBrands returns on every response what it returns with    *)
(* strategy 5 removed.                                                   *)
C28_Strategy5Subsumed ==
  pc = "done" =>
    /\ CanonicalList(resolveValue(ResultOf(result), 0)) =>
         /\ Strategy1(result) = resolveValue(ResultOf(result), 0)
         /\ brands = resolveValue(ResultOf(result), 0)
    /\ brands = WithoutStrategy5(result)

C28_Witness ==
  /\ pc = "done"
  /\ CanonicalList(resolveValue(ResultOf(result), 0))
  /\ Strategy5(result) = resolveValue(ResultOf(result), 0)
  /\ brands = Strategy5(result)
  /\ brands = Strategy1(result)
  /\ IsString(ResultOf(result))

-----------------------------------------------------------------------------
(* The order of the parse strategies, on the specification of the resolver *)

(* the value parsed by the first of the three strategies that succeeds on *)
(* the string: direct, fenced block, from the first brace or bracket      *)
FirstParse(s) ==
  LET trimmed == Trim(s.vs) IN
  IF s.vs # <<>> /\ DirectParse(trimmed).ok
  THEN [ok |-> TRUE, by |-> "direct", v |-> DirectParse(trimmed).v]
  ELSE IF s.vs # <<>> /\ FencedParse(trimmed).ok
  THEN [ok |-> TRUE, by |-> "fenced", v |-> FencedParse(trimmed).v]
  ELSE IF s.vs # <<>> /\ SlicedParse(trimmed).ok
  THEN [ok |-> TRUE, by |-> "sliced", v |-> SlicedParse(trimmed).v]
  ELSE [ok |-> FALSE, by |-> "none", v |-> Null]

(* C27: for a string, resolve tries (a) the direct JSON parse of the      *)
(* trimmed string, (b) the parse of the first fenced code block, (c) the  *)
(* parse from the first brace or bracket to the end, in this order, and   *)
(* returns resolve(v, depth + 1) for the value v parsed by the first      *)
(* strategy that succeeds, whatever v is: a JSON null, number or boolean  *)
(* too.                                                                   *)
C27_FirstParseResolved ==
  (pc # "start" /\ IsString(val) /\ FirstParse(val).ok) =>
    resolved = resolveValue(FirstParse(val).v, 1)

-----------------------------------------------------------------------------
(* findBrandsInObject on its own: inputs, specification, properties *)

MaxHops == 6

(* a value under key from which the search yields the list named name,   *)
(* and one from which it yields nothing                                  *)
Located(key, name) ==
  CASE key \in {"brands", "results"} -> Arr(<<BrandNamed(name)>>)
    [] key = "text" -> Stringify(Brands(Arr(<<BrandNamed(name)>>)))
    [] OTHER -> Brands(Arr(<<BrandNamed(name)>>))

Barren(key) ==
  CASE key \in {"brands", "results"} -> Arr(<<Num(1)>>)
    [] key = "text" -> Word("hello")
    [] OTHER -> Obj(<<"note">>, <<Word("hello")>>)

(* objects with two of the places filled, the keys in either order *)
TwoPlaces ==
  LET first(i) == {Located(ProbeKeys[i], ProbeKeys[i]), Barren(ProbeKeys[i])}
                    \cup (IF i <= 2
                          THEN { Arr(<<SiteRecord(Word("Verified"))>>),
                                 Arr(<<SiteRecord(Num(1))>>) }
                          ELSE {})
  IN UNION { { Obj(<<ProbeKeys[i], ProbeKeys[j]>>,
                   <<v, Located(ProbeKeys[j], ProbeKeys[j])>>),
               Obj(<<ProbeKeys[j], ProbeKeys[i]>>,
                   <<Located(ProbeKeys[j], ProbeKeys[j]), v>>) } :
             <<i, j, v>> \in { <<a, b, c>> \in (1..6) \X (1..6) \X
                                  UNION {first(k) : k \in 1..6} :
                                 a < b /\ c \in first(a) } }

Lists ==
  { Arr(<<>>), Arr(<<Num(1)>>), Arr(<<Null>>), Arr(<<Word("Nike")>>),
    Arr(<<BrandNamed("Nike")>>), Arr(<<BrandNamed("Nike"), Num(1)>>),
    Arr(<<Num(1), BrandNamed("Nike")>>),
    Arr(<<Obj(<<"name">>, <<Word("Nike")>>)>>),
    Arr(<<SiteRecord(Word("Verified"))>>),
    Arr(<<Arr(<<BrandNamed("Nike")>>)>>),
    Arr(<<Brands(Arr(<<BrandNamed("Nike")>>))>>) }

(* the keys of the hops, outermost first, of a value n hops deep *)
HopKeys == <<"data", "result", "response", "text">>

RECURSIVE Deep(_, _)
(* v under n hops through the fallback containers *)
Deep(v, n) ==
  IF n = 0 THEN v
  ELSE LET key == HopKeys[((n - 1) % 4) + 1] IN
       IF key = "text" THEN Obj(<<key>>, <<Stringify(Deep(v, n - 1))>>)
       ELSE Obj(<<key>>, <<Deep(v, n - 1)>>)

DeepOf(n) ==
  { Deep(Brands(Arr(<<BrandNamed("Nike")>>)), n),
    Deep(Arr(<<BrandNamed("Nike")>>), n) }

FindInputs ==
  {Undefined, Null, Num(7), Word("Nike"), Obj(<<>>, <<>>)}
    \cup TwoPlaces \cup Lists \cup UNION {DeepOf(n) : n \in 0..MaxHops}

InitFind ==
  /\ pc = "start"
  /\ val \in FindInputs
  /\ resolved = Undefined /\ reresolved = Undefined
  /\ parseDepths = {}
  /\ r = Undefined /\ mapped = Undefined
  /\ result = Undefined
  /\ brands = Arr(<<>>)
  /\ parsedMeta = Undefined
  /\ enteredAt \in 0..(MaxFindDepth + 1)
  /\ fromFind = Undefined /\ shown = Undefined
  /\ Constructed

(* fromFind = findBrandsInObject(val, enteredAt) *)
Find ==
  /\ pc = "start"
  /\ pc' = "done"
  /\ fromFind' = findBrandsInObject(val, enteredAt)
  /\ UNCHANGED <<resolverVars, mapperVars, extractVars, metaVars, enteredAt,
                 shown, pageVars>>

NextFind == Find

SpecFind == InitFind /\ [][NextFind]_vars

(* what the claim takes place i of the object rec to yield at this depth: *)
(* for brands and results the list the key resolves to (mapped when its   *)
(* first element has the alternate-schema markers and no brand_name), for *)
(* the fallback containers the result of the search one level down        *)
PlaceYield(rec, depth, i) ==
  LET key == ProbeKeys[i]
      v == resolveValue(Get(rec, key), 0)
  IN IF i <= 2
     THEN IF ~(IsArray(v) /\ Len(v.vs) > 0 /\ IsObjectLike(v.vs[1])) THEN Null
          ELSE IF HasKey(v.vs[1], "brand_name") THEN v
          ELSE IF HasKey(v.vs[1], "website_details")
                  \/ HasKey(v.vs[1], "selected_official_website")
          THEN MapAll(v.vs)
          ELSE Null
     ELSE IF ~HasKey(rec, key) THEN Null
     ELSE IF key = "text"
     THEN IF IsString(Get(rec, key))
          THEN findBrandsInObject(tryParseString(Get(rec, key)), depth + 1)
          ELSE Null
     ELSE findBrandsInObject(v, depth + 1)

FirstPlaceYield(rec, depth) ==
  LET hits == {i \in 1..Len(ProbeKeys) : PlaceYield(rec, depth, i) # Null}
  IN IF hits = {} THEN Null
     ELSE PlaceYield(rec, depth, CHOOSE i \in hits : \A j \in hits : i <= j)

(* C24: for an object, findBrands probes brands, results, text, result,   *)
(* response, data in this order and returns the brand list of the first   *)
(* place that yields one: brands before results, both before every        *)
(* fallback container, and among these the first whose search one level   *)
(* down is not null; places after the first match are not consulted.      *)
(* Stated of the searches entered within the depth limit.                 *)
C24_ProbeOrder ==
  (pc = "done" /\ IsObject(val) /\ enteredAt <= 4) =>
    /\ fromFind = Null \/ IsArray(fromFind)
    /\ fromFind = FirstPlaceYield(val, enteredAt)

(* C25: findBrands returns null whenever it is entered at a depth greater *)
(* than 4, whatever the value; so a brand list whose container is reached *)
(* only after five or more hops through fallback containers from the root *)
(* is not found; findBrands terminates on every input.                    *)
C25_DepthGuard ==
  pc = "done" =>
    /\ enteredAt > 4 => fromFind = Null
    /\ \A n \in 5..MaxHops : (enteredAt = 0 /\ val \in DeepOf(n)) => fromFind = Null

C25_Witness ==
  /\ pc = "done"
  /\ enteredAt = 0
  /\ val = Deep(Brands(Arr(<<BrandNamed("Nike")>>)), 5)
  /\ fromFind = Null
  /\ findBrandsInObject(Deep(Brands(Arr(<<BrandNamed("Nike")>>)), 4), 0)
       = Arr(<<BrandNamed("Nike")>>)

(* the list is not empty and its first element is an object, not null,   *)
(* that has the key brand_name                                            *)
IsBrandList(list) ==
  /\ Len(list.vs) > 0
  /\ list.vs[1].k \in {"obj", "arr"}
  /\ list.vs[1].k = "obj" /\ \E i \in 1..Len(list.vs[1].ks) : list.vs[1].ks[i] = "brand_name"

(* C26, as stated: given a list, findBrands returns that list if and only *)
(* if it is not empty and its first element is an object, not null, with  *)
(* the key brand_name; for every other list it returns null and does not  *)
(* search inside the list.                                                *)
C26_ListTest ==
  (pc = "done" /\ IsArray(val)) =>
    fromFind = IF IsBrandList(val) THEN val ELSE Null

(* C26, amended: the same of a list findBrands is given at a depth of at  *)
(* most 4.                                                                *)
C26_ListTestWithinDepth ==
  (pc = "done" /\ IsArray(val) /\ enteredAt <= 4) =>
    fromFind = IF IsBrandList(val) THEN val ELSE Null

C26_Witness ==
  /\ pc = "done"
  /\ enteredAt = 4
  /\ val = Arr(<<BrandNamed("Nike"), Num(1)>>)
  /\ fromFind = val

-----------------------------------------------------------------------------
(* parseBrandText on its own: inputs, specification, properties *)

MaxText == 4

(* the pieces a text is made of *)
TextTokens == {" ", "\n", ",", "dq", "Brand", "Nike"}

RECURSIVE TextsOfLength(_)
TextsOfLength(n) ==
  IF n = 0 THEN {<<>>}
  ELSE {Append(text, token) : text \in TextsOfLength(n - 1), token \in TextTokens}

InitText ==
  /\ pc = "start"
  /\ val = Undefined /\ resolved = Undefined /\ reresolved = Undefined
  /\ parseDepths = {}
  /\ r = Undefined /\ mapped = Undefined
  /\ parsedMeta = Undefined
  /\ enteredAt = 0 /\ fromFind = Undefined /\ shown = Undefined
  /\ result = Undefined
  /\ brands = Arr(<<>>)
  /\ \E n \in 0..MaxText : brandText \in TextsOfLength(n)
  /\ file = Null
  /\ brandNames = <<>>
  /\ loading = FALSE
  /\ currentBrand = 0
  /\ searchQuery = EmptyString
  /\ sortField = "brand_name"
  /\ sortDirection = "asc"
  /\ expandedRows = {}
  /\ view = "input"
  /\ error = Null
  /\ artifactFiles = Arr(<<>>)
  /\ activeAgent = FALSE
  /\ meta = Meta(Num(0), Num(0), Num(0))
  /\ inputMode = "text"
  /\ showSample = FALSE
  /\ pending = "none"
  /\ uploadResult = Undefined
  /\ reading = <<>>
  /\ current = 0
  /\ op = "constructed"

(* brandNames = parseBrandText(brandText) *)
ParseText ==
  /\ pc = "start"
  /\ pc' = "done"
  /\ brandNames' = parseBrandText(brandText)
  /\ op' = "parseBrandText"
  /\ UNCHANGED <<val, resolved, reresolved, parseDepths, r, mapped, parsedMeta,
                 probeVars, result, brands, brandText, file, loading, currentBrand,
                 searchQuery, sortField, sortDirection, expandedRows, view,
                 error, artifactFiles, activeAgent, meta, inputMode,
                 showSample, pending, uploadResult, reading, current>>

NextText == ParseText

SpecText == InitText /\ [][NextText]_vars

(* the name is a header word, whatever its letter case *)
IsHeaderWord(name) == [i \in 1..Len(name) |-> Lower(name[i])] \in HeaderLines

(* C22: for every input text, no element of what parseBrandText returns   *)
(* is empty or has white space at either end, and none equals, ignoring   *)
(* case, a header word (brand, name, brand_name, brand name, company,     *)
(* company name); 'Brand Name\nNike\n, Apple,\n' yields exactly          *)
(* [Nike, Apple].                                                         *)
C22_NamesClean ==
  pc = "done" =>
    /\ \A i \in 1..Len(brandNames) :
         /\ brandNames[i] # <<>>
         /\ ~IsSpace(brandNames[i][1])
         /\ ~IsSpace(brandNames[i][Len(brandNames[i])])
         /\ ~IsHeaderWord(brandNames[i])
    /\ parseBrandText(<<"Brand", " ", "Name", "\n", "Nike", "\n", ",", " ",
                        "Apple", ",", "\n">>) = << <<"Nike">>, <<"Apple">> >>

-----------------------------------------------------------------------------
(* The row of a brand on its own: inputs, specification, properties *)

NotFoundText == <<Txt("Not"), Ws, Txt("Found")>>

(* the forms of an absent field: missing, empty, white space, 'Not Found' *)
(* in any letter case and with white space around it                      *)
AbsentForms ==
  { Undefined, Null, EmptyString, Str(<<Ws>>), Str(<<Ws, Ws>>),
    Str(NotFoundText), Str(<<Txt("not"), Ws, Txt("found")>>),
    Str(<<Txt("NOT"), Ws, Txt("FOUND")>>), Str(<<Txt("Not"), Ws, Txt("FOUND")>>),
    Str(<<Ws>> \o NotFoundText), Str(NotFoundText \o <<Ws>>),
    Str(<<Ws, Ws>> \o NotFoundText \o <<Ws>>) }

(* other field values: strings, and the numbers and booleans JSON can hold *)
PresentForms ==
  { Word("Nike"), Word("Not"), Word("Found"), Str(<<Txt("Not"), Txt("Found")>>),
    Str(<<Txt("Not"), Ws, Ws, Txt("Found")>>),
    Str(NotFoundText \o <<Ws, Txt("Yet")>>),
    Str(<<Txt("Brand"), Ws>> \o NotFoundText),
    Word("Turkey"), Word("Verified"),
    Str(<<Txt("https://"), Txt("nike.com")>>),
    Num(1964), Num(0), Bool(TRUE), Bool(FALSE) }

InitShow ==
  /\ pc = "start"
  /\ val \in AbsentForms \cup PresentForms
  /\ resolved = Undefined /\ reresolved = Undefined
  /\ parseDepths = {}
  /\ r = Undefined /\ mapped = Undefined
  /\ result = Undefined
  /\ brands = Arr(<<>>)
  /\ parsedMeta = Undefined
  /\ enteredAt = 0 /\ fromFind = Undefined /\ shown = Undefined
  /\ Constructed

(* isNotFound(val) *)
TestNotFound ==
  /\ pc = "start"
  /\ pc' = "done"
  /\ op' = "isNotFound"
  /\ shown' = Look("boolean", "", isNotFound(val))
  /\ UNCHANGED <<resolverVars, mapperVars, extractVars, metaVars, enteredAt,
                 fromFind, brandText, file, brandNames, loading, currentBrand,
                 searchQuery, sortField, sortDirection, expandedRows, view,
                 error, artifactFiles, activeAgent, meta, inputMode,
                 showSample, pending, uploadResult, reading, current>>

(* the place of a row renders the field value val *)
Render(place) ==
  /\ pc = "start"
  /\ pc' = "done"
  /\ op' = place
  /\ shown' = Shown(place, val)
  /\ UNCHANGED <<resolverVars, mapperVars, extractVars, metaVars, enteredAt,
                 fromFind, brandText, file, brandNames, loading, currentBrand,
                 searchQuery, sortField, sortDirection, expandedRows, view,
                 error, artifactFiles, activeAgent, meta, inputMode,
                 showSample, pending, uploadResult, reading, current>>

NextShow ==
  \/ TestNotFound
  \/ \E place \in Places : Render(place)

SpecShow == InitShow /\ [][NextShow]_vars

(* the claim's forms of absence, and its other strings, stated on the     *)
(* characters of the value                                                *)
IsBlank(chunks) == \A i \in 1..Len(chunks) : chunks[i] = Ws
SaysNotFound(chunks) ==
  \E i, j \in 1..Len(chunks) :
    /\ j = i + 2
    /\ IsBlank(SubSeq(chunks, 1, i - 1)) /\ IsBlank(SubSeq(chunks, j + 1, Len(chunks)))
    /\ chunks[i] \in {Txt("Not"), Txt("not"), Txt("NOT")}
    /\ chunks[i + 1] = Ws
    /\ chunks[j] \in {Txt("Found"), Txt("found"), Txt("FOUND")}
IsAbsentForm(v) ==
  \/ v \in {Undefined, Null}
  \/ v.k = "str" /\ (IsBlank(v.vs) \/ SaysNotFound(v.vs))

(* isNotFound is true of every form of absence and false of every other  *)
(* string                                                                 *)
NotFoundAsClaimed ==
  (pc = "done" /\ op = "isNotFound") =>
    /\ IsAbsentForm(val) => shown.text = Bool(TRUE)
    /\ (val.k = "str" /\ ~IsAbsentForm(val)) => shown.text = Bool(FALSE)

(* the place shows every form of absence as it shows a missing field *)
ShowsAbsence ==
  IsAbsentForm(val) => shown = Shown(op, Undefined)

NotFoundPlaces == Places \ {"website_scope", "confidence", "brand_name"}

-----------------------------------------------------------------------------
(* Domain of the text model *)

(* a text the chunk reading of the code-block pattern is not exact for:  *)
(* its first three backticks lie inside a JSON text and it does not      *)
(* parse directly                                                        *)
Irregular(s) ==
  /\ IsString(s)
  /\ LET t == Trim(s.vs)
         open == FirstWith(t, "fence", 0)
     IN open > 0 /\ t[open].k = "json" /\ ~DirectParse(t).ok

RECURSIVE AnyIrregular(_)
AnyIrregular(v) == Irregular(v) \/ \E i \in 1..Len(v.vs) : AnyIrregular(v.vs[i])

(* no input of any specification holds such a text, at any nesting *)
InputsRegular == ~AnyIrregular(val) /\ ~AnyIrregular(r) /\ ~AnyIrregular(result)

====
